---- MODULE Spec2Model ----
(***************************************************************************)
(* Token lifecycle of CopilotClient (client.ts): the in-memory credential  *)
(* record authData, the auth file it is loaded from and persisted to, and  *)
(* the asynchronous operations of one client instance, each cut into the   *)
(* synchronous blocks between its awaits.                                  *)
(***************************************************************************)
EXTENDS Integers, FiniteSets, Sequences, TLC

\* ------------------------------------------------------------------ bounds
\* Date.now() in seconds ranges over 0..MaxNow.
MaxNow == 2
\* Number of operations of one client that may be in progress at once.
NumOps == 2

\* Frames a response body of chatStream is made of, at most.
MaxFrames == 3
\* Places, at most, where reader.read() ends a chunk before the body ends.
MaxCuts == 2

\* Poll requests and responses of pollAccessToken that are counted and
\* recorded; the loop itself goes on beyond them.
MaxPolls == 5
\* Seconds of sleeping since the start of polling that are counted.
MaxElapsed == 6

\* --------------------------------------------------------------- constants
\* config.refreshBuffer ?? 60
DefaultRefreshBuffer == 60
\* await sleep(5000) after slow_down, in seconds
LongBackoff == 5

Ops == 1..NumOps

\* `this.authData` before loadAuth has run.
Undefined == [undefined |-> TRUE]
\* The auth file does not exist (fs.readFile rejects).
NoFile == [enoent |-> TRUE]

\* Configurations the client is constructed with: refreshBuffer left out, and
\* refreshBuffer given.
Configs ==
    { [authFile |-> "auth.json"],
      [authFile |-> "auth.json", refreshBuffer |-> 1] }

\* Bodies of successful answers of /copilot_internal/v2/token: each carries
\* its own token, an expires_at (epoch seconds) and a refresh_in. The expiries
\* lie on both sides of now + refreshBuffer for each configured buffer.
TokenResponses ==
    { [token |-> "t2", expires_at |-> 2, refresh_in |-> 2],
      [token |-> "t3", expires_at |-> DefaultRefreshBuffer + 2, refresh_in |-> 3] }

\* HTTP statuses of the token endpoint and of the API endpoints.
TokenStatuses == {200, 401, 404, 429}
ApiStatuses == {200, 401, 403, 429, 500}

\* Contents the auth file may have when the client is constructed: absent, a
\* full record as auth.ts writes it, a record holding only the GitHub token,
\* and a record without a GitHub token.
InitialFiles ==
    { NoFile,
      [githubToken |-> "gh", copilotToken |-> "t0", copilotTokenExpiry |-> 1,
       refreshIn |-> 0, createdAt |-> "c", user |-> "u"],
      [githubToken |-> "gh", createdAt |-> "c"],
      [copilotToken |-> "t0", copilotTokenExpiry |-> 1, refreshIn |-> 0,
       createdAt |-> "c", user |-> "u"] }

\* Methods that call ensureToken() and then one API endpoint. chatStream and
\* createEmbedding run the statements of chat up to the response.
ApiKinds == {"chat", "getModels"}

VARIABLES
    now,           \* Math.floor(Date.now() / 1000)
    refreshBuffer, \* this.config.refreshBuffer
    authData,      \* this.authData
    modelsCache,   \* this.modelsCache is set
    file,          \* content of config.authFile
    pc,            \* per operation: the await it is suspended at
    kind,          \* per operation: the public method it runs
    text,          \* per operation: the JSON text handed to fs.writeFile
    tokenReqs,     \* per operation: token-exchange requests issued
    apiReqs,       \* per operation: API requests issued
    writes,        \* per operation: completed writes of the auth file
    auth,          \* per operation: Authorization bearer of its API request
    ret,           \* per operation: value returned by isTokenValid()
    err,           \* per operation: class of the error it threw
    lapsed         \* per operation: ensureToken() was entered with
                   \* copilotTokenExpiry = now - 1

\* chatStream's decoding loop (client.ts lines 132-156).
VARIABLES
    plan,          \* the frames the response body was built from
    body,          \* bytes of res.body
    readPos,       \* bytes handed out by reader.read() so far
    cuts,          \* kinds of the places where a chunk ended before the body
    decoder,       \* bytes the TextDecoder holds back (stream: true)
    buffer,        \* `buffer`
    lines,         \* lines of the for loop not yet visited
    yielded,       \* chunks the generator has yielded
    gen            \* the generator: "off", "read", "lines", "ended", "failed"

streamVars == <<plan, body, readPos, cuts, decoder, buffer, lines, yielded, gen>>

clientVars == <<now, refreshBuffer, authData, modelsCache, file, pc, kind, text,
                tokenReqs, apiReqs, writes, auth, ret, err, lapsed>>

\* pollAccessToken (auth.ts lines 80-126). Times are in seconds.
VARIABLES
    session,       \* the DeviceCodeResponse: interval and expires_in
    sleepDuration, \* `sleepDuration`
    ppc,           \* the await pollAccessToken is suspended at, or how it ended
    polls,         \* poll requests issued (counted up to MaxPolls)
    backoffs,      \* sleep(5000) calls made (counted up to MaxPolls)
    answers,       \* the first MaxPolls poll responses, in order
    data,          \* `data`, the response classified last
    waited,        \* seconds slept since the previous response (or the start)
    elapsed,       \* seconds slept since the start (counted up to MaxElapsed)
    result         \* the returned token, or the message of the Error thrown

pollVars == <<session, sleepDuration, ppc, polls, backoffs, answers, data,
              waited, elapsed, result>>

\* One call of handleError (client.ts lines 435-451).
VARIABLES
    res,           \* the Response handed to handleError
    thrown         \* the error handleError threw

errorVars == <<res, thrown>>

\* main() of the authentication script (auth.ts lines 172-239).
VARIABLES
    mpc,           \* the await main() is suspended at, or how it ended
    steps,         \* the steps of main() that have succeeded, in order
    got,           \* githubToken, user and copilotData, once obtained
    exitMsg        \* the message of the error main() caught

mainVars == <<mpc, steps, got, exitMsg>>

\* One call of createCopilotClient (client.ts lines 461-467).
VARIABLES
    config,        \* the argument
    disk,          \* the files, by path
    cpc,           \* the await the call is suspended at, or how it ended
    made           \* the client returned, or the error thrown

createVars == <<config, disk, cpc, made>>

\* Two chatStream generators of one client consumed at the same time
\* (client.ts lines 132-156).
VARIABLES
    gens,          \* per invocation: its body, `reader`, `decoder`, `buffer`,
                   \* the lines not yet visited, its yields and its position
    arrivals       \* the invocations in the order their chunks arrived

pairVars == <<gens, arrivals>>

nonClientVars == <<streamVars, pollVars, errorVars, mainVars, createVars,
                   pairVars>>
notStream == <<clientVars, pollVars, errorVars, mainVars, createVars, pairVars>>
notPoll == <<clientVars, streamVars, errorVars, mainVars, createVars, pairVars>>
notError == <<clientVars, streamVars, pollVars, mainVars, createVars, pairVars>>
notChatStream == <<clientVars, pollVars, mainVars, createVars, pairVars>>
notPair == <<clientVars, streamVars, pollVars, errorVars, mainVars, createVars>>

vars == <<clientVars, nonClientVars>>

client == <<refreshBuffer, authData, modelsCache, file>>
locals == <<kind, text, tokenReqs, apiReqs, writes, auth, ret, err, lapsed>>

\* ------------------------------------------------------------ pure helpers
\* obj?.key is a non-empty string.
TruthyStr(obj, key) == key \in DOMAIN obj /\ obj[key] # ""
\* obj?.key is a non-zero number.
TruthyNum(obj, key) == key \in DOMAIN obj /\ obj[key] # 0

\* constructor: refreshBuffer: config.refreshBuffer ?? 60
constructor(cfg) ==
    IF "refreshBuffer" \in DOMAIN cfg THEN cfg.refreshBuffer ELSE DefaultRefreshBuffer

\* isTokenValid with the comparison slipped to >=.
isTokenValidAtBoundary(ad, t, buf) ==
    IF ~TruthyStr(ad, "copilotToken") \/ ~TruthyNum(ad, "copilotTokenExpiry")
    THEN FALSE
    ELSE ad.copilotTokenExpiry >= t + buf

\* isTokenValid(), with Date.now() and the configuration made explicit.
isTokenValid(ad, t, buf) ==
    IF ~TruthyStr(ad, "copilotToken") \/ ~TruthyNum(ad, "copilotTokenExpiry")
    THEN FALSE
    ELSE ad.copilotTokenExpiry > t + buf

\* assignToken replacing the record by the three token fields.
assignTokenOnly(ad, d) ==
    [copilotToken |-> d.token, copilotTokenExpiry |-> d.expires_at,
     refreshIn |-> d.refresh_in]

\* assignToken without the assignment of copilotTokenExpiry.
assignTokenKeepExpiry(ad, d) ==
    [k \in DOMAIN ad \cup {"copilotToken", "refreshIn"} |->
        CASE k = "copilotToken" -> d.token
          [] k = "refreshIn" -> d.refresh_in
          [] OTHER -> ad[k]]

\* assignToken with only the first of its three assignments made.
assignTokenFirstOnly(ad, d) ==
    [k \in DOMAIN ad \cup {"copilotToken"} |->
        IF k = "copilotToken" THEN d.token ELSE ad[k]]

\* assignToken keeping the later of the old and the new expiry.
assignTokenLaterExpiry(ad, d) ==
    [k \in DOMAIN ad \cup {"copilotToken", "copilotTokenExpiry", "refreshIn"} |->
        CASE k = "copilotToken" -> d.token
          [] k = "copilotTokenExpiry" ->
                IF /\ "copilotTokenExpiry" \in DOMAIN ad
                   /\ ad.copilotTokenExpiry > d.expires_at
                THEN ad.copilotTokenExpiry ELSE d.expires_at
          [] k = "refreshIn" -> d.refresh_in
          [] OTHER -> ad[k]]

\* The three assignments of refreshCopilotToken on this.authData.
assignToken(ad, d) ==
    [k \in DOMAIN ad \cup {"copilotToken", "copilotTokenExpiry", "refreshIn"} |->
        CASE k = "copilotToken" -> d.token
          [] k = "copilotTokenExpiry" -> d.expires_at
          [] k = "refreshIn" -> d.refresh_in
          [] OTHER -> ad[k]]

\* JSON.stringify(this.authData, null, 2): every own key of the record with
\* its value (strings and integers are written exactly).
JSONStringify(obj) == [k \in DOMAIN obj |-> obj[k]]
\* JSON.parse of a text written by JSONStringify.
JSONParse(t) == [k \in DOMAIN t |-> t[k]]

\* handleError: the error class thrown for a non-success API status.
handleError(status) ==
    IF status = 401 \/ status = 403 THEN "AuthenticationError"
    ELSE IF status = 429 THEN "RateLimitError"
    ELSE "CopilotError"

\* refreshError classifying the status the way handleError does.
refreshErrorByStatus(status) == handleError(status)

\* Error class thrown by refreshCopilotToken for a non-success status.
refreshError(status) ==
    IF status = 404 THEN "AuthenticationError" ELSE "AuthenticationError"

\* --------------------------------------------------------------- the model
\* No chatStream response is being decoded.
StreamOff ==
    /\ plan = <<>> /\ body = <<>> /\ readPos = 0 /\ cuts = <<>>
    /\ decoder = <<>> /\ buffer = <<>> /\ lines = <<>> /\ yielded = <<>>
    /\ gen = "off"

\* pollAccessToken is not running.
PollOff ==
    /\ session = [interval |-> 0, expires_in |-> 0]
    /\ sleepDuration = 0 /\ ppc = "off"
    /\ polls = 0 /\ backoffs = 0 /\ answers = <<>> /\ data = [none |-> TRUE]
    /\ waited = 0 /\ elapsed = 0 /\ result = ""

\* handleError is not running.
ErrorOff == res = [none |-> TRUE] /\ thrown = [none |-> TRUE]

\* Nothing obtained yet by main().
NothingGot == [githubToken |-> "", user |-> "", copilotData |-> Undefined]

\* main() is not running.
MainOff == mpc = "off" /\ steps = <<>> /\ got = NothingGot /\ exitMsg = ""

\* createCopilotClient is not running.
CreateOff ==
    /\ config = [none |-> TRUE] /\ disk = <<>>
    /\ cpc = "off" /\ made = [none |-> TRUE]

\* The invocations of chatStream that can be consumed at the same time.
StreamIds == {1, 2}

\* A generator that was not created.
NoGen == [body |-> <<>>, readPos |-> 0, chunks |-> <<>>, decoder |-> <<>>,
          buffer |-> <<>>, lines |-> <<>>, yielded |-> <<>>, gen |-> "off"]

\* No two streams are being consumed.
PairOff == gens = [s \in StreamIds |-> NoGen] /\ arrivals = <<>>

Init ==
    /\ StreamOff
    /\ PollOff
    /\ ErrorOff
    /\ MainOff
    /\ CreateOff
    /\ PairOff
    /\ now = 0
    /\ \E cfg \in Configs : refreshBuffer = constructor(cfg)
    /\ authData = Undefined
    /\ modelsCache = FALSE
    /\ file \in InitialFiles
    /\ pc = [o \in Ops |-> "idle"]
    /\ kind = [o \in Ops |-> "none"]
    /\ text = [o \in Ops |-> NoFile]
    /\ tokenReqs = [o \in Ops |-> 0]
    /\ apiReqs = [o \in Ops |-> 0]
    /\ writes = [o \in Ops |-> 0]
    /\ auth = [o \in Ops |-> ""]
    /\ ret = [o \in Ops |-> FALSE]
    /\ err = [o \in Ops |-> "none"]
    /\ lapsed = [o \in Ops |-> FALSE]

\* `throw new E(...)` out of operation o: its promise rejects with e and the
\* locals of its frames are gone.
throw(o, e) ==
    /\ pc' = [pc EXCEPT ![o] = "failed"]
    /\ err' = [err EXCEPT ![o] = e]
    /\ text' = [text EXCEPT ![o] = NoFile]
    /\ auth' = [auth EXCEPT ![o] = ""]

\* The clock advances by one second.
Tick ==
    /\ now < MaxNow
    /\ now' = now + 1
    /\ UNCHANGED <<client, pc, locals>>

\* init(): loadAuth() up to `await fs.readFile`.
init(o) ==
    /\ pc[o] = "idle"
    /\ pc' = [pc EXCEPT ![o] = "readFile"]
    /\ kind' = [kind EXCEPT ![o] = "init"]
    /\ UNCHANGED <<lapsed, now, client, text, tokenReqs, apiReqs, writes, auth, ret, err>>

\* loadAuth(): readFile settles; the record is parsed, or the catch throws.
loadAuth(o) ==
    /\ pc[o] = "readFile"
    /\ IF file = NoFile
       THEN /\ throw(o, "AuthenticationError")
            /\ UNCHANGED authData
       ELSE /\ authData' = JSONParse(file)
            /\ pc' = [pc EXCEPT ![o] = "done"]
            /\ UNCHANGED <<err, text, auth>>
    /\ UNCHANGED <<lapsed, now, refreshBuffer, modelsCache, file, kind,
                   tokenReqs, apiReqs, writes, ret>>

\* refreshCopilotToken without the check for a GitHub token.
refreshCopilotTokenUnchecked(o) ==
    /\ pc' = [pc EXCEPT ![o] = "awaitToken"]
    /\ tokenReqs' = [tokenReqs EXCEPT ![o] = @ + 1]
    /\ UNCHANGED <<err, text, auth>>

\* refreshCopilotToken() up to `await fetch(.../copilot_internal/v2/token)`.
refreshCopilotToken(o) ==
    IF ~TruthyStr(authData, "githubToken")
    THEN /\ throw(o, "AuthenticationError")
         /\ UNCHANGED tokenReqs
    ELSE /\ pc' = [pc EXCEPT ![o] = "awaitToken"]
         /\ tokenReqs' = [tokenReqs EXCEPT ![o] = @ + 1]
         /\ UNCHANGED <<err, text, auth>>

\* ensureToken refreshing on every call.
ensureTokenAlways(o) == refreshCopilotToken(o)

\* ensureToken with a refresh already in flight joined instead of repeated.
ensureTokenGuarded(o) ==
    IF /\ ~isTokenValid(authData, now, refreshBuffer)
       /\ ~\E p \in Ops \ {o} : pc[p] \in {"awaitToken", "mkdir", "writeFile"}
    THEN refreshCopilotToken(o)
    ELSE /\ pc' = [pc EXCEPT ![o] = "ensured"]
         /\ UNCHANGED <<tokenReqs, err, text, auth>>

\* ensureToken() up to its first await.
ensureToken(o) ==
    IF ~isTokenValid(authData, now, refreshBuffer)
    THEN refreshCopilotToken(o)
    ELSE /\ pc' = [pc EXCEPT ![o] = "ensured"]
         /\ UNCHANGED <<tokenReqs, err, text, auth>>

\* chat / chatStream / createEmbedding / getModels up to `await ensureToken()`.
Call(o, k) ==
    /\ pc[o] = "idle"
    /\ kind' = [kind EXCEPT ![o] = k]
    /\ IF k = "getModels" /\ modelsCache
       THEN /\ pc' = [pc EXCEPT ![o] = "done"]
            /\ UNCHANGED <<tokenReqs, err, text, auth>>
       ELSE ensureToken(o)
    /\ lapsed' = [lapsed EXCEPT ![o] =
                     ~(k = "getModels" /\ modelsCache)
                     /\ "copilotTokenExpiry" \in DOMAIN authData
                     /\ authData.copilotTokenExpiry = now - 1]
    /\ UNCHANGED <<now, client, apiReqs, writes, ret>>

\* A direct call of the public refreshCopilotToken().
ForceRefresh(o) ==
    /\ pc[o] = "idle"
    /\ kind' = [kind EXCEPT ![o] = "refreshCopilotToken"]
    /\ refreshCopilotToken(o)
    /\ UNCHANGED <<lapsed, now, client, apiReqs, writes, ret>>

\* A call of the public isTokenValid().
CheckValid(o) ==
    /\ pc[o] = "idle"
    /\ kind' = [kind EXCEPT ![o] = "isTokenValid"]
    /\ ret' = [ret EXCEPT ![o] = isTokenValid(authData, now, refreshBuffer)]
    /\ pc' = [pc EXCEPT ![o] = "done"]
    /\ UNCHANGED <<lapsed, now, client, text, tokenReqs, apiReqs, writes, auth, err>>

\* TokenRejected with the operation going on with the token it has.
TokenRejectedFallsBack(o) ==
    /\ pc[o] = "awaitToken"
    /\ pc' = [pc EXCEPT ![o] =
                 IF kind[o] = "refreshCopilotToken" THEN "done" ELSE "ensured"]
    /\ UNCHANGED <<lapsed, now, client, kind, tokenReqs, apiReqs, writes, ret,
                   err, text, auth>>

\* refreshCopilotToken(): the token endpoint answers a non-success status.
TokenRejected(o) ==
    /\ pc[o] = "awaitToken"
    /\ \E status \in TokenStatuses \ {200} : throw(o, refreshError(status))
    /\ UNCHANGED <<lapsed, now, client, kind, tokenReqs, apiReqs, writes, ret>>

\* refreshCopilotToken(): the token endpoint answers 200; the body is parsed,
\* the record is assigned, and saveAuth() runs up to `await fs.mkdir`.
TokenGranted(o) ==
    /\ pc[o] = "awaitToken"
    /\ \E d \in TokenResponses : authData' = assignToken(authData, d)
    /\ pc' = [pc EXCEPT ![o] = "mkdir"]
    /\ UNCHANGED <<lapsed, now, refreshBuffer, modelsCache, file, kind, text, tokenReqs,
                   apiReqs, writes, auth, ret, err>>

\* saveAuthMkdir with the record in memory set back to the file's when the
\* persist fails.
saveAuthMkdirRollback(o) ==
    /\ pc[o] = "mkdir"
    /\ \E ok \in BOOLEAN :
          IF ok
          THEN /\ text' = [text EXCEPT ![o] = JSONStringify(authData)]
               /\ pc' = [pc EXCEPT ![o] = "writeFile"]
               /\ UNCHANGED <<err, auth, authData>>
          ELSE /\ throw(o, "Error")
               /\ authData' = IF file = NoFile THEN authData ELSE JSONParse(file)
    /\ UNCHANGED <<lapsed, now, refreshBuffer, modelsCache, file, kind, tokenReqs,
                   apiReqs, writes, ret>>

\* saveAuth(): mkdir settles; on success the record as it is now is
\* serialised and handed to fs.writeFile.
saveAuthMkdir(o) ==
    /\ pc[o] = "mkdir"
    /\ \E ok \in BOOLEAN :
          IF ok
          THEN /\ text' = [text EXCEPT ![o] = JSONStringify(authData)]
               /\ pc' = [pc EXCEPT ![o] = "writeFile"]
               /\ UNCHANGED <<err, auth>>
          ELSE throw(o, "Error")
    /\ UNCHANGED <<lapsed, now, client, kind, tokenReqs, apiReqs, writes, ret>>

\* Where an operation continues once refreshCopilotToken() has returned.
afterRefresh(k) == IF k = "refreshCopilotToken" THEN "done" ELSE "ensured"

\* saveAuthWrite with a rejected write caught and ignored.
saveAuthWriteSwallow(o) ==
    /\ pc[o] = "writeFile"
    /\ \E ok \in BOOLEAN :
          /\ file' = IF ok THEN text[o] ELSE file
          /\ writes' = [writes EXCEPT ![o] = IF ok THEN @ + 1 ELSE @]
    /\ pc' = [pc EXCEPT ![o] = afterRefresh(kind[o])]
    /\ text' = [text EXCEPT ![o] = NoFile]
    /\ UNCHANGED <<lapsed, now, refreshBuffer, authData, modelsCache, kind,
                   tokenReqs, apiReqs, ret, err, auth>>

\* saveAuth(): writeFile settles; refreshCopilotToken() returns or throws.
saveAuthWrite(o) ==
    /\ pc[o] = "writeFile"
    /\ \E ok \in BOOLEAN :
          IF ok
          THEN /\ file' = text[o]
               /\ writes' = [writes EXCEPT ![o] = @ + 1]
               /\ pc' = [pc EXCEPT ![o] = afterRefresh(kind[o])]
               /\ text' = [text EXCEPT ![o] = NoFile]
               /\ UNCHANGED <<err, auth>>
          ELSE /\ throw(o, "Error")
               /\ UNCHANGED <<file, writes>>
    /\ UNCHANGED <<lapsed, now, refreshBuffer, authData, modelsCache, kind,
                   tokenReqs, apiReqs, ret>>

\* copilotHeaders(): Authorization: "Bearer " + this.authData!.copilotToken
\* (an absent key concatenates as the text "undefined").
copilotHeaders(ad) ==
    IF "copilotToken" \in DOMAIN ad THEN ad.copilotToken ELSE "undefined"

\* The API request is issued with the headers built from the record as it is.
Fetch(o) ==
    /\ pc[o] = "ensured"
    /\ auth' = [auth EXCEPT ![o] = copilotHeaders(authData)]
    /\ apiReqs' = [apiReqs EXCEPT ![o] = @ + 1]
    /\ pc' = [pc EXCEPT ![o] = "awaitApi"]
    /\ UNCHANGED <<lapsed, now, client, kind, text, tokenReqs, writes, ret, err>>

\* Response with a 401 answered by a new token exchange and a second attempt.
ResponseRefreshesOn401(o) ==
    /\ pc[o] = "awaitApi"
    /\ \E status \in ApiStatuses :
          IF status = 200
          THEN /\ pc' = [pc EXCEPT ![o] = "done"]
               /\ modelsCache' = (modelsCache \/ kind[o] = "getModels")
               /\ auth' = [auth EXCEPT ![o] = ""]
               /\ UNCHANGED <<err, text, tokenReqs>>
          ELSE IF status = 401
          THEN /\ pc' = [pc EXCEPT ![o] = "awaitToken"]
               /\ tokenReqs' = [tokenReqs EXCEPT ![o] = @ + 1]
               /\ UNCHANGED <<err, text, auth, modelsCache>>
          ELSE /\ throw(o, handleError(status))
               /\ UNCHANGED <<modelsCache, tokenReqs>>
    /\ UNCHANGED <<lapsed, now, refreshBuffer, authData, file, kind,
                   apiReqs, writes, ret>>

\* The API answers: handleError throws for a non-success status.
Response(o) ==
    /\ pc[o] = "awaitApi"
    /\ \E status \in ApiStatuses :
          IF status = 200
          THEN /\ pc' = [pc EXCEPT ![o] = "done"]
               /\ modelsCache' = (modelsCache \/ kind[o] = "getModels")
               /\ auth' = [auth EXCEPT ![o] = ""]
               /\ UNCHANGED <<err, text>>
          ELSE /\ throw(o, handleError(status))
               /\ UNCHANGED modelsCache
    /\ UNCHANGED <<lapsed, now, refreshBuffer, authData, file, kind,
                   tokenReqs, apiReqs, writes, ret>>

\* The caller has consumed the settled promise; the operation slot is free.
Return(o) ==
    /\ pc[o] \in {"done", "failed"}
    /\ pc' = [pc EXCEPT ![o] = "idle"]
    /\ kind' = [kind EXCEPT ![o] = "none"]
    /\ tokenReqs' = [tokenReqs EXCEPT ![o] = 0]
    /\ apiReqs' = [apiReqs EXCEPT ![o] = 0]
    /\ writes' = [writes EXCEPT ![o] = 0]
    /\ ret' = [ret EXCEPT ![o] = FALSE]
    /\ err' = [err EXCEPT ![o] = "none"]
    /\ lapsed' = [lapsed EXCEPT ![o] = FALSE]
    /\ UNCHANGED <<now, client, text, auth>>

\* Some promise has settled (an operation's, or the one `await ensureToken()`
\* waits on) and the continuation waiting on it has not run yet; it runs as a
\* microtask, before any timer or I/O callback.
Settled == \E o \in Ops : pc[o] \in {"done", "failed", "ensured"}

Next ==
    \/ ~Settled /\ Tick /\ UNCHANGED nonClientVars
    \/ ~Settled /\ \E o \in Ops : init(o) /\ UNCHANGED nonClientVars
    \/ ~Settled /\ \E o \in Ops : loadAuth(o) /\ UNCHANGED nonClientVars
    \/ ~Settled /\ \E o \in Ops : \E k \in ApiKinds : Call(o, k) /\ UNCHANGED nonClientVars
    \/ ~Settled /\ \E o \in Ops : ForceRefresh(o) /\ UNCHANGED nonClientVars
    \/ ~Settled /\ \E o \in Ops : CheckValid(o) /\ UNCHANGED nonClientVars
    \/ ~Settled /\ \E o \in Ops : TokenRejected(o) /\ UNCHANGED nonClientVars
    \/ ~Settled /\ \E o \in Ops : TokenGranted(o) /\ UNCHANGED nonClientVars
    \/ ~Settled /\ \E o \in Ops : saveAuthMkdir(o) /\ UNCHANGED nonClientVars
    \/ ~Settled /\ \E o \in Ops : saveAuthWrite(o) /\ UNCHANGED nonClientVars
    \/ \E o \in Ops : Fetch(o) /\ UNCHANGED nonClientVars
    \/ ~Settled /\ \E o \in Ops : Response(o) /\ UNCHANGED nonClientVars
    \/ \E o \in Ops : Return(o) /\ UNCHANGED nonClientVars

Spec == Init /\ [][Next]_vars

\* ------------------------------------------------------------------ claims
\* The record holds an access token whose expiry lies more than the refresh
\* buffer after the current time.
Usable ==
    /\ "copilotToken" \in DOMAIN authData
    /\ "copilotTokenExpiry" \in DOMAIN authData
    /\ authData.copilotTokenExpiry > now + refreshBuffer

\* Operation o enters ensureToken() in this step.
EntersEnsure(o) ==
    /\ pc[o] = "idle"
    /\ kind'[o] \in ApiKinds
    /\ ~(kind'[o] = "getModels" /\ modelsCache)

\* C1: isTokenValid() returns true exactly when the record holds an access
\* token and copilotTokenExpiry > now + refreshBuffer; it is false at
\* copilotTokenExpiry = now + refreshBuffer, within the buffer, and when the
\* token or the expiry is absent. The buffer is the configured one, or 60.
C1_IsValidIffBeyondBuffer ==
    /\ refreshBuffer \in {DefaultRefreshBuffer} \cup
                         {c.refreshBuffer : c \in {d \in Configs : "refreshBuffer" \in DOMAIN d}}
    /\ \A o \in Ops :
          (pc[o] = "done" /\ kind[o] = "isTokenValid") => (ret[o] <=> Usable)

\* isTokenValid() has answered false for a token that expires exactly at
\* now + refreshBuffer.
C1_Witness ==
    \E o \in Ops :
        /\ pc[o] = "done" /\ kind[o] = "isTokenValid"
        /\ "copilotToken" \in DOMAIN authData
        /\ "copilotTokenExpiry" \in DOMAIN authData
        /\ authData.copilotTokenExpiry = now + refreshBuffer
        /\ ~ret[o]

\* C2: ensureToken() entered while the token is valid issues no token
\* exchange, starts no persist and leaves the record and the file as they
\* are; a token exchange is issued by ensureToken() only when the token is
\* not valid.
C2_ValidMeansNoRefresh ==
    [][\A o \in Ops :
          EntersEnsure(o) =>
             /\ Usable => /\ pc'[o] = "ensured"
                          /\ tokenReqs'[o] = 0
                          /\ writes'[o] = 0
                          /\ authData' = authData
                          /\ file' = file
                          /\ text' = text
             /\ tokenReqs'[o] > tokenReqs[o] => ~Usable]_vars

\* An operation has passed ensureToken() without a refresh while the token
\* is valid.
C2_Witness ==
    \E o \in Ops :
        /\ pc[o] = "ensured" /\ kind[o] = "chat"
        /\ tokenReqs[o] = 0 /\ writes[o] = 0
        /\ Usable

\* ensureToken() of operation o returns in this step.
EnsureReturns(o) ==
    /\ kind'[o] \in ApiKinds
    /\ pc[o] \in {"idle", "writeFile"}
    /\ pc'[o] = "ensured"

\* ensureToken() of operation o throws in this step.
EnsureThrows(o) ==
    /\ kind'[o] \in ApiKinds
    /\ pc[o] \in {"idle", "awaitToken", "mkdir", "writeFile"}
    /\ pc'[o] = "failed"

IdentityKeys == {"githubToken", "user", "createdAt"}

\* Records a and b agree on key k: both lack it, or both hold the same value.
SameAt(a, b, k) ==
    /\ (k \in DOMAIN a) <=> (k \in DOMAIN b)
    /\ k \in DOMAIN a => a[k] = b[k]

\* C4: a successful refresh overwrites exactly copilotToken,
\* copilotTokenExpiry and refreshIn of the in-memory record with the values
\* of one provider response; githubToken, user and createdAt are the same
\* before and after, in memory, in the text handed to the write and in the
\* file once written.
C4_RefreshTouchesTokenFieldsOnly ==
    [][\A o \in Ops :
          /\ (pc[o] = "awaitToken" /\ pc'[o] = "mkdir") =>
                /\ \E d \in TokenResponses :
                      /\ authData'.copilotToken = d.token
                      /\ authData'.copilotTokenExpiry = d.expires_at
                      /\ authData'.refreshIn = d.refresh_in
                /\ \A k \in IdentityKeys : SameAt(authData', authData, k)
                /\ DOMAIN authData' \subseteq
                      DOMAIN authData \cup
                        {"copilotToken", "copilotTokenExpiry", "refreshIn"}
          /\ (pc[o] = "mkdir" /\ pc'[o] = "writeFile") =>
                \A k \in IdentityKeys : SameAt(text'[o], authData, k)
          /\ (pc[o] = "writeFile" /\ writes'[o] = writes[o] + 1) =>
                /\ \A k \in IdentityKeys : SameAt(file', file, k)
                /\ \A k \in IdentityKeys : SameAt(file', authData', k)]_vars

\* A refresh has replaced the loaded token by the provider's and has been
\* written, identity fields in place.
C4_Witness ==
    \E o \in Ops :
        /\ writes[o] = 1 /\ pc[o] = "ensured"
        /\ file = authData
        /\ {"copilotToken", "refreshIn", "githubToken", "user"}
              \subseteq DOMAIN authData
        /\ authData.copilotToken = "t3" /\ authData.refreshIn = 3
        /\ authData.githubToken = "gh" /\ authData.user = "u"

\* Keys a write of the whole record carries besides the token fields.
WholeRecordKeys == {"githubToken", "createdAt"}

\* C5: an operation whose token exchange succeeded goes on (to its API
\* request or to its return) only after a completed write of the whole
\* record, not of the token fields alone; when mkdir or the write fails the
\* operation fails with that error and issues no API request.
C5_PersistOrFail ==
    \A o \in Ops :
        /\ (tokenReqs[o] = 1 /\ pc[o] \in {"ensured", "awaitApi", "done"}) =>
              writes[o] = 1
        /\ (tokenReqs[o] = 1 /\ writes[o] = 0) => apiReqs[o] = 0
        /\ err[o] = "Error" =>
              (pc[o] = "failed" /\ tokenReqs[o] = 1 /\ writes[o] = 0)
        /\ pc[o] = "writeFile" => WholeRecordKeys \subseteq DOMAIN text[o]
        /\ writes[o] = 1 => WholeRecordKeys \subseteq DOMAIN file

\* A chat whose exchange succeeded has failed on the persist: the record in
\* memory holds the new token, the file does not, no API request was issued.
C5_Witness ==
    \E o \in Ops :
        /\ pc[o] = "failed" /\ err[o] = "Error" /\ kind[o] = "chat"
        /\ tokenReqs[o] = 1 /\ apiReqs[o] = 0
        /\ authData.copilotToken = "t3"
        /\ "copilotToken" \in DOMAIN file /\ file.copilotToken = "t0"

\* C6: init() on an absent auth file fails with AuthenticationError, and so
\* does every operation that needs a token while no record is loaded; in
\* neither case is a token exchange or an API request issued.
C6_NoRecordNoNetwork ==
    \A o \in Ops :
        /\ kind[o] = "init" =>
              /\ tokenReqs[o] = 0 /\ apiReqs[o] = 0
              /\ pc[o] = "done" => file # NoFile
              /\ pc[o] = "failed" =>
                    (file = NoFile /\ err[o] = "AuthenticationError")
        /\ authData = Undefined =>
              /\ tokenReqs[o] = 0 /\ apiReqs[o] = 0
              /\ pc[o] \in {"idle", "readFile", "done", "failed"}
              /\ kind[o] \in ApiKinds \cup {"refreshCopilotToken"} =>
                    (pc[o] = "failed" /\ err[o] = "AuthenticationError")

\* A chat on a client whose auth file is absent and whose record was never
\* loaded has failed with AuthenticationError.
C6_Witness ==
    \E o \in Ops :
        /\ authData = Undefined /\ file = NoFile
        /\ kind[o] = "chat" /\ pc[o] = "failed"
        /\ err[o] = "AuthenticationError"
        /\ tokenReqs[o] = 0 /\ apiReqs[o] = 0

\* Operation o enters refreshCopilotToken() in this step.
EntersRefresh(o) ==
    \/ EntersEnsure(o) /\ ~Usable
    \/ pc[o] = "idle" /\ kind'[o] = "refreshCopilotToken"

\* C7: a refresh on a record without a GitHub token fails with
\* AuthenticationError before any request is sent, and a refresh whose
\* exchange is answered with a non-success status fails with
\* AuthenticationError, whatever the status.
C7_RefreshFailsWithAuthenticationError ==
    [][\A o \in Ops :
          /\ (EntersRefresh(o) /\ ~("githubToken" \in DOMAIN authData)) =>
                /\ pc'[o] = "failed"
                /\ err'[o] = "AuthenticationError"
                /\ tokenReqs'[o] = 0
          /\ (pc[o] = "awaitToken" /\ pc'[o] = "failed") =>
                err'[o] = "AuthenticationError"]_vars

\* A forced refresh has failed with AuthenticationError on a rejected
\* exchange.
C7_Witness ==
    \E o \in Ops :
        /\ kind[o] = "refreshCopilotToken" /\ pc[o] = "failed"
        /\ err[o] = "AuthenticationError" /\ tokenReqs[o] = 1

\* C8: when the exchange started by ensureToken() is rejected, the operation
\* fails with the refresh error, has issued and will issue no API request,
\* and the record in memory and the file are left as they were.
C8_RefreshFailurePropagates ==
    [][\A o \in Ops :
          (pc[o] = "awaitToken" /\ pc'[o] \notin {"awaitToken", "mkdir"}) =>
             /\ pc'[o] = "failed"
             /\ err'[o] = "AuthenticationError"
             /\ apiReqs'[o] = 0
             /\ auth'[o] = ""
             /\ authData' = authData
             /\ file' = file]_vars

\* A getModels has failed on a rejected exchange; the stale token is still
\* in memory and no API request carried it.
C8_Witness ==
    \E o \in Ops :
        /\ kind[o] = "getModels" /\ pc[o] = "failed"
        /\ err[o] = "AuthenticationError"
        /\ tokenReqs[o] = 1 /\ apiReqs[o] = 0
        /\ "copilotToken" \in DOMAIN authData
        /\ authData.copilotToken = "t0" /\ file = authData

\* C9 as stated: at the step that issues a chat / chatStream / getModels /
\* createEmbedding request, the Authorization header carries the token of
\* the record and that token's copilotTokenExpiry is later than the current
\* time.
C9_TokenUnexpiredWhenSent ==
    [][\A o \in Ops :
          apiReqs'[o] = apiReqs[o] + 1 =>
             /\ "copilotToken" \in DOMAIN authData'
             /\ "copilotTokenExpiry" \in DOMAIN authData'
             /\ auth'[o] = authData'.copilotToken
             /\ authData'.copilotTokenExpiry > now']_vars

\* Another operation of the same client is inside refreshCopilotToken().
OtherRefreshing(o) ==
    \E p \in Ops \ {o} : pc[p] \in {"awaitToken", "mkdir", "writeFile"}

\* C10: ensureToken() is not guarded against concurrent calls. An operation
\* that enters it while the token is not valid issues its own token exchange
\* also when another operation's refresh is in flight; every granted
\* exchange goes on to persist; and each completed write replaces the file
\* by the record that writer serialised, so the file holds the record of the
\* last write to complete.
C10_UnguardedRefreshLastWriterWins ==
    [][\A o \in Ops :
          /\ (/\ EntersEnsure(o) /\ ~Usable /\ OtherRefreshing(o)
              /\ TruthyStr(authData, "githubToken")) =>
                (pc'[o] = "awaitToken" /\ tokenReqs'[o] = 1)
          /\ (pc[o] = "awaitToken" /\ pc'[o] # "awaitToken"
              /\ pc'[o] # "failed") => pc'[o] = "mkdir"
          /\ writes'[o] = writes[o] + 1 => file' = text[o]]_vars

\* Two API operations, the only ones running, each issued one exchange and each completed one write
\* while the clock was at most 1. The record in memory holds "t2", the token
\* granted last; "t3", granted first, is valid at every instant up to 1, so
\* the second exchange was issued before the first was answered: both were
\* in flight at once. The file holds "t3": the write that completed last
\* carried the record serialised first.
C10_Witness ==
    /\ now <= 1
    /\ \E o, p \in Ops :
          /\ o # p
          /\ \A q \in {o, p} :
                /\ kind[q] \in ApiKinds /\ pc[q] = "awaitApi"
                /\ tokenReqs[q] = 1 /\ writes[q] = 1
          /\ \A q \in Ops \ {o, p} : pc[q] = "idle"
    /\ "copilotToken" \in DOMAIN authData /\ authData.copilotToken = "t2"
    /\ "copilotToken" \in DOMAIN file /\ file.copilotToken = "t3"

\* ------------------------------------------------------- chatStream decoder
\* No operation of the client is in progress and no record is loaded.
ClientIdle ==
    /\ now = 0
    /\ refreshBuffer = DefaultRefreshBuffer
    /\ authData = Undefined
    /\ modelsCache = FALSE
    /\ pc = [o \in Ops |-> "idle"]
    /\ kind = [o \in Ops |-> "none"]
    /\ text = [o \in Ops |-> NoFile]
    /\ tokenReqs = [o \in Ops |-> 0]
    /\ apiReqs = [o \in Ops |-> 0]
    /\ writes = [o \in Ops |-> 0]
    /\ auth = [o \in Ops |-> ""]
    /\ ret = [o \in Ops |-> FALSE]
    /\ err = [o \in Ops |-> "none"]
    /\ lapsed = [o \in Ops |-> FALSE]

\* The client is constructed and no operation of it is in progress.
ClientAtRest ==
    /\ file = NoFile
    /\ ClientIdle

\* Bytes are written as strings: an ASCII byte by its character ("LF", "CR"
\* and "Q" for line feed, carriage return and the double quote), and "C3",
\* "A9" for the two bytes of U+00E9 in UTF-8.
\* "data: "
PrefixData == <<"d", "a", "t", "a", ":", " ">>
\* "[DONE]"
Sentinel == <<"[", "D", "O", "N", "E", "]">>

\* Lines a body is made of: data frames with the payloads 1 and "é", a
\* data frame whose payload is not JSON, the sentinel frame (sent with CR LF),
\* the empty line that separates events, and a keep-alive: a data frame with
\* nothing but a carriage return after the prefix.
FrameNames == {"one", "e", "bad", "done", "blank", "keep"}

\* A data frame cut off before its line feed.
TailBytes == PrefixData \o <<"1">>
\* The sentinel frame cut off before its line feed.
DoneTailBytes == PrefixData \o Sentinel

FrameBytes(name) ==
    CASE name = "one" -> PrefixData \o <<"1", "LF">>
      [] name = "e" -> PrefixData \o <<"Q", "C3", "A9", "Q", "LF">>
      [] name = "bad" -> PrefixData \o <<"x", "LF">>
      [] name = "done" -> PrefixData \o Sentinel \o <<"CR", "LF">>
      [] name = "blank" -> <<"LF">>
      [] name = "keep" -> PrefixData \o <<"CR", "LF">>
      [] name = "tail" -> TailBytes
      [] name = "donetail" -> DoneTailBytes

\* The last lines a body can have that no line feed ends.
TailNames == {"tail", "donetail"}

\* Bodies: one to MaxFrames different lines, with or without a cut-off frame
\* at the end.
Plans ==
    LET whole == {f \in UNION {[1..n -> FrameNames] : n \in 1..MaxFrames} :
                     \A i, j \in DOMAIN f : f[i] = f[j] => i = j}
    IN  whole \cup {Append(f, t) : f \in whole, t \in TailNames}

RECURSIVE BodyOf(_)
BodyOf(p) == IF p = <<>> THEN <<>> ELSE FrameBytes(Head(p)) \o BodyOf(Tail(p))

\* decoder.decode(value, {stream: true}): UTF-8 to text. `held` is the lead
\* byte of an unfinished character kept from the previous call; a byte that
\* cannot continue or start a character becomes U+FFFD.
RECURSIVE decodeFrom(_, _, _, _)
decodeFrom(held, chunk, i, out) ==
    IF i > Len(chunk) THEN [text |-> out, held |-> held]
    ELSE IF held = <<>>
         THEN IF chunk[i] = "C3"
              THEN decodeFrom(<<"C3">>, chunk, i + 1, out)
              ELSE decodeFrom(<<>>, chunk, i + 1,
                     Append(out, IF chunk[i] = "A9" THEN "U+FFFD" ELSE chunk[i]))
         ELSE IF chunk[i] = "A9"
              THEN decodeFrom(<<>>, chunk, i + 1, Append(out, "U+00E9"))
              ELSE decodeFrom(<<>>, chunk, i, Append(out, "U+FFFD"))

\* TextDecode without {stream: true}: every call starts afresh and ends an
\* unfinished character as U+FFFD.
TextDecodeNoStream(held, chunk) ==
    LET r == decodeFrom(<<>>, chunk, 1, <<>>)
    IN  [text |-> IF r.held = <<>> THEN r.text ELSE Append(r.text, "U+FFFD"),
         held |-> <<>>]

TextDecode(held, chunk) == decodeFrom(held, chunk, 1, <<>>)

\* buffer.split("\n"): the parts between the line feeds of s, in order; cur
\* is the part being read and out the parts completed.
RECURSIVE splitFrom(_, _, _, _)
splitFrom(s, i, cur, out) ==
    IF i > Len(s) THEN Append(out, cur)
    ELSE IF s[i] = "LF" THEN splitFrom(s, i + 1, <<>>, Append(out, cur))
    ELSE splitFrom(s, i + 1, Append(cur, s[i]), out)

split(s) == splitFrom(s, 1, <<>>, <<>>)

\* line.startsWith("data: ")
startsWith(line, prefix) ==
    Len(line) >= Len(prefix) /\ SubSeq(line, 1, Len(prefix)) = prefix

\* line.slice(6)
slice(line, n) == SubSeq(line, n + 1, Len(line))

WhiteSpace == {" ", "CR", "LF"}

\* data.trim()
RECURSIVE trim(_)
trim(s) ==
    IF s = <<>> THEN s
    ELSE IF s[1] \in WhiteSpace THEN trim(Tail(s))
    ELSE IF s[Len(s)] \in WhiteSpace THEN trim(SubSeq(s, 1, Len(s) - 1))
    ELSE s

\* JSON.parse(json) for the texts that occur: a digit is a number, a text
\* between double quotes with none inside is the string of its characters,
\* anything else throws SyntaxError.
JSONParseChunk(json) ==
    IF Len(json) = 1 /\ json[1] \in {"1", "2"}
    THEN [ok |-> TRUE, value |-> [type |-> "number", of |-> json]]
    ELSE IF /\ Len(json) >= 2
            /\ json[1] = "Q" /\ json[Len(json)] = "Q"
            /\ \A i \in 2..(Len(json) - 1) : json[i] # "Q"
    THEN [ok |-> TRUE,
          value |-> [type |-> "string", of |-> SubSeq(json, 2, Len(json) - 1)]]
    ELSE [ok |-> FALSE]

\* line.slice(6).trim()
dataOf(line) == trim(slice(line, 6))

\* Where a chunk that ends after byte i of b ends: inside a character, at the
\* end of a line, inside "data: ", or inside the rest of a line.
CutKind(b, i) ==
    IF b[i] = "C3" THEN "char"
    ELSE IF b[i] = "LF" THEN "line"
    ELSE IF b[i] \in {"d", "a", "t", ":"} THEN "prefix"
    ELSE "payload"

\* The response has arrived with status 200 and a body; the loop is about to
\* read.
InitStream ==
    /\ ClientAtRest
    /\ PollOff
    /\ ErrorOff
    /\ MainOff
    /\ CreateOff
    /\ PairOff
    /\ plan \in Plans
    /\ body = BodyOf(plan)
    /\ readPos = 0 /\ cuts = <<>>
    /\ decoder = <<>> /\ buffer = <<>> /\ lines = <<>> /\ yielded = <<>>
    /\ gen = "read"

\* ReadDone with what is left in the buffer parsed and yielded as a last
\* line.
ReadDoneFlush ==
    /\ gen = "read"
    /\ readPos = Len(body)
    /\ gen' = "ended"
    /\ yielded' = IF startsWith(buffer, PrefixData)
                     /\ JSONParseChunk(dataOf(buffer)).ok
                  THEN Append(yielded, JSONParseChunk(dataOf(buffer)).value)
                  ELSE yielded
    /\ UNCHANGED <<plan, body, readPos, cuts, decoder, buffer, lines>>
    /\ UNCHANGED notStream

\* ReadDone with the text left in the buffer handed to the for loop as a last
\* line before the generator ends.
ReadDoneTailAsLine ==
    /\ gen = "read"
    /\ readPos = Len(body)
    /\ IF buffer = <<>>
       THEN gen' = "ended" /\ UNCHANGED <<lines, buffer>>
       ELSE gen' = "lines" /\ lines' = <<buffer>> /\ buffer' = <<>>
    /\ UNCHANGED <<plan, body, readPos, cuts, decoder, yielded>>
    /\ UNCHANGED notStream

\* reader.read() resolves with done: break, and the generator ends.
ReadDone ==
    /\ gen = "read"
    /\ readPos = Len(body)
    /\ gen' = "ended"
    /\ UNCHANGED <<plan, body, readPos, cuts, decoder, buffer, lines, yielded>>
    /\ UNCHANGED notStream

\* reader.read() resolves with the next n bytes: they are decoded and
\* appended to the buffer, the buffer is split, its last part is kept.
ReadChunk ==
    /\ gen = "read"
    /\ \E n \in 1..(Len(body) - readPos) :
          /\ readPos + n < Len(body) => Len(cuts) < MaxCuts
          /\ \E d \in {TextDecode(decoder,
                                    SubSeq(body, readPos + 1, readPos + n))} :
             \E parts \in {split(buffer \o d.text)} :
                 /\ decoder' = d.held
                 /\ lines' = SubSeq(parts, 1, Len(parts) - 1)
                 /\ buffer' = parts[Len(parts)]
          /\ readPos' = readPos + n
          /\ cuts' = IF readPos + n < Len(body)
                     THEN Append(cuts, CutKind(body, readPos + n))
                     ELSE cuts
    /\ gen' = "lines"
    /\ UNCHANGED <<plan, body, yielded>>
    /\ UNCHANGED notStream

\* The for loop has visited every line: back to reader.read().
LinesDone ==
    /\ gen = "lines" /\ lines = <<>>
    /\ gen' = "read"
    /\ UNCHANGED <<plan, body, readPos, cuts, decoder, buffer, lines, yielded>>
    /\ UNCHANGED notStream

\* SkipLine with an empty payload passed on as an empty chunk.
SkipLineYieldsEmpty ==
    /\ gen = "lines" /\ lines # <<>>
    /\ \/ ~startsWith(Head(lines), PrefixData) /\ yielded' = yielded
       \/ /\ startsWith(Head(lines), PrefixData) /\ dataOf(Head(lines)) = <<>>
          /\ yielded' = Append(yielded, [type |-> "string", of |-> <<>>])
    /\ lines' = Tail(lines)
    /\ UNCHANGED <<plan, body, readPos, cuts, decoder, buffer, gen>>
    /\ UNCHANGED notStream

\* `continue`: the line is no data line, or its payload is empty.
SkipLine ==
    /\ gen = "lines" /\ lines # <<>>
    /\ \/ ~startsWith(Head(lines), PrefixData)
       \/ startsWith(Head(lines), PrefixData) /\ dataOf(Head(lines)) = <<>>
    /\ lines' = Tail(lines)
    /\ UNCHANGED <<plan, body, readPos, cuts, decoder, buffer, yielded, gen>>
    /\ UNCHANGED notStream

\* SentinelSeen leaving only the for loop: the next chunk is read.
SentinelBreak ==
    /\ gen = "lines" /\ lines # <<>>
    /\ startsWith(Head(lines), PrefixData)
    /\ dataOf(Head(lines)) = Sentinel
    /\ gen' = "read"
    /\ lines' = <<>>
    /\ UNCHANGED <<plan, body, readPos, cuts, decoder, buffer, yielded>>
    /\ UNCHANGED notStream

\* `if (data === "[DONE]") return`
SentinelSeen ==
    /\ gen = "lines" /\ lines # <<>>
    /\ startsWith(Head(lines), PrefixData)
    /\ dataOf(Head(lines)) = Sentinel
    /\ gen' = "ended"
    /\ lines' = <<>> /\ buffer' = <<>> /\ decoder' = <<>>
    /\ UNCHANGED <<plan, body, readPos, cuts, yielded>>
    /\ UNCHANGED notStream

\* The line to parse: a data line whose payload is neither empty nor the
\* sentinel.
ToParse ==
    /\ gen = "lines" /\ lines # <<>>
    /\ startsWith(Head(lines), PrefixData)
    /\ dataOf(Head(lines)) \notin {<<>>, Sentinel}

\* YieldChunk without the try around JSON.parse.
SkipMalformedUncaught ==
    /\ ToParse
    /\ ~JSONParseChunk(dataOf(Head(lines))).ok
    /\ gen' = "failed"
    /\ lines' = <<>> /\ buffer' = <<>> /\ decoder' = <<>>
    /\ UNCHANGED <<plan, body, readPos, cuts, yielded>>
    /\ UNCHANGED notStream

\* `yield JSON.parse(data)`
YieldChunk ==
    /\ ToParse
    /\ JSONParseChunk(dataOf(Head(lines))).ok
    /\ yielded' = Append(yielded, JSONParseChunk(dataOf(Head(lines))).value)
    /\ lines' = Tail(lines)
    /\ UNCHANGED <<plan, body, readPos, cuts, decoder, buffer, gen>>
    /\ UNCHANGED notStream

\* JSON.parse throws; `catch {}` goes on with the next line.
SkipMalformed ==
    /\ ToParse
    /\ ~JSONParseChunk(dataOf(Head(lines))).ok
    /\ lines' = Tail(lines)
    /\ UNCHANGED <<plan, body, readPos, cuts, decoder, buffer, yielded, gen>>
    /\ UNCHANGED notStream

NextStream ==
    \/ ReadDone
    \/ ReadChunk
    \/ LinesDone
    \/ SkipLine
    \/ SentinelSeen
    \/ YieldChunk
    \/ SkipMalformed

SpecStream == InitStream /\ [][NextStream]_vars

\* The same with the consumer pulling until the generator ends and every
\* reader.read() settling.
FairSpecStream == SpecStream /\ WF_vars(NextStream)

\* ------------------------------------------------ claims about the decoder
\* What the for loop yields on these lines, in order, up to the sentinel.
RECURSIVE yieldsOf(_)
yieldsOf(ls) ==
    IF ls = <<>> THEN <<>>
    ELSE IF ~startsWith(Head(ls), PrefixData) THEN yieldsOf(Tail(ls))
    ELSE IF dataOf(Head(ls)) = Sentinel THEN <<>>
    ELSE IF dataOf(Head(ls)) = <<>> THEN yieldsOf(Tail(ls))
    ELSE IF JSONParseChunk(dataOf(Head(ls))).ok
         THEN <<JSONParseChunk(dataOf(Head(ls))).value>> \o yieldsOf(Tail(ls))
         ELSE yieldsOf(Tail(ls))

\* What chatStream yields when the whole body arrives as one chunk.
OneChunk(b) ==
    LET parts == split(TextDecode(<<>>, b).text)
    IN  yieldsOf(SubSeq(parts, 1, Len(parts) - 1))

IsPrefix(a, b) == Len(a) <= Len(b) /\ a = SubSeq(b, 1, Len(a))

\* C11: what the decoder yields does not depend on where the chunks end. Fed
\* a body cut at up to MaxCuts places (inside "data: ", inside a payload,
\* inside a multi-byte character, at a line end), the generator has, when it
\* ends, yielded exactly the chunks it yields for the same bytes in one
\* chunk, and before that a prefix of them.
C11_ChunkBoundariesDoNotMatter ==
    /\ IsPrefix(yielded, OneChunk(body))
    /\ gen = "ended" => yielded = OneChunk(body)

\* A body cut inside "data: " and inside the two bytes of U+00E9 has been
\* decoded to the end and the string was yielded whole.
C11_Witness ==
    /\ gen = "ended"
    /\ cuts = <<"prefix", "char">>
    /\ \E i \in 1..Len(yielded) :
          yielded[i] = [type |-> "string", of |-> <<"U+00E9">>]
    /\ yielded = OneChunk(body)

\* C12: the step that meets a data line whose trimmed payload is "[DONE]"
\* ends the generator without an error and without a chunk; the lines after
\* it in the same chunk are dropped, and once ended the generator reads no
\* further bytes and yields nothing more.
C12_SentinelEndsDecoding ==
    [][/\ (/\ gen = "lines" /\ lines # <<>>
           /\ startsWith(Head(lines), PrefixData)
           /\ dataOf(Head(lines)) = Sentinel) =>
              (gen' = "ended" /\ yielded' = yielded /\ lines' = <<>>)
       /\ gen = "ended" =>
              (gen' = "ended" /\ yielded' = yielded /\ readPos' = readPos)]_vars

\* The body 1, [DONE], "é", cut-off frame: the sentinel and the frame after
\* it arrived in one chunk, bytes were still unread, and the generator has
\* ended having yielded the 1 only.
C12_Witness ==
    /\ gen = "ended"
    /\ plan = <<"one", "done", "e", "tail">>
    /\ readPos >= Len(BodyOf(<<"one", "done", "e">>))
    /\ readPos < Len(body)
    /\ yielded = <<[type |-> "number", of |-> <<"1">>]>>

\* The value a line of a body carries, if it is a data frame with a JSON
\* payload.
Valid == {"one", "e"}
ValueOf(name) ==
    IF name = "one" THEN [type |-> "number", of |-> <<"1">>]
    ELSE [type |-> "string", of |-> <<"U+00E9">>]

\* The values of the valid frames of a body before its sentinel, in order.
RECURSIVE Expected(_)
Expected(p) ==
    IF p = <<>> \/ Head(p) = "done" THEN <<>>
    ELSE IF Head(p) \in Valid THEN <<ValueOf(Head(p))>> \o Expected(Tail(p))
    ELSE Expected(Tail(p))

\* C13: a data frame whose payload does not parse is dropped: the generator
\* never fails, and when it ends it has yielded the value of every valid
\* complete frame before the sentinel, those before and those after a
\* malformed one, in the order of the frames in the body.
C13_MalformedFrameSkipped ==
    /\ gen # "failed"
    /\ IsPrefix(yielded, Expected(plan))
    /\ gen = "ended" => yielded = Expected(plan)

\* The body 1, x, "é" has been decoded: the frames around the malformed one
\* were yielded in order.
C13_Witness ==
    /\ gen = "ended"
    /\ plan = <<"one", "bad", "e">>
    /\ yielded = <<ValueOf("one"), ValueOf("e")>>

\* C14: when reader.read() reports done the generator ends at that step,
\* without an error and without yielding anything, a partial line left in
\* the buffer included; and for every body the generator ends, having
\* yielded no more chunks than the body has lines.
C14_EndOfInputEndsDecoding ==
    /\ [][(gen = "read" /\ readPos = Len(body)) =>
             (gen' = "ended" /\ yielded' = yielded)]_vars
    /\ [](gen # "failed" /\ Len(yielded) <= Len(plan))
    /\ <>(gen = "ended")

\* A body without sentinel that ends in a cut-off data frame has been read
\* to its end: the generator ended with the cut-off frame still in the
\* buffer and not yielded.
C14_Witness ==
    /\ gen = "ended"
    /\ plan = <<"one", "tail">>
    /\ readPos = Len(body)
    /\ buffer = TailBytes
    /\ yielded = <<ValueOf("one")>>

\* --------------------------------------------------------- pollAccessToken
\* Device sessions: the provider's interval and the lifetime of the code.
Sessions ==
    { [interval |-> 0, expires_in |-> 4], [interval |-> 1, expires_in |-> 4] }

\* Bodies /login/oauth/access_token answers with.
PollResponses ==
    { [access_token |-> "gho_1", token_type |-> "bearer"],
      [error |-> "authorization_pending"],
      [error |-> "slow_down"],
      [error |-> "expired_token"],
      [error |-> "access_denied", error_description |-> "denied by the user"],
      [error |-> "access_denied"],
      [token_type |-> "bearer"],
      [access_token |-> "gho_2", error |-> "access_denied",
       error_description |-> "denied by the user"] }

Min(a, b) == IF a < b THEN a ELSE b

\* `const sleepDuration = (interval + 1) * 1000`, in seconds.
sleepDurationOf(interval) == interval + 1

\* pollAccessToken(deviceCode, interval) has been called and is at its first
\* `await sleep(sleepDuration)`.
InitPoll ==
    /\ ClientAtRest
    /\ StreamOff
    /\ ErrorOff
    /\ MainOff
    /\ CreateOff
    /\ PairOff
    /\ session \in Sessions
    /\ sleepDuration = sleepDurationOf(session.interval)
    /\ ppc = "sleep"
    /\ polls = 0 /\ backoffs = 0 /\ answers = <<>> /\ data = [none |-> TRUE]
    /\ waited = 0 /\ elapsed = 0 /\ result = ""

\* SleepDone giving up once the device code has expired.
SleepDoneDeadline ==
    /\ ppc = "sleep"
    /\ waited' = waited + sleepDuration
    /\ elapsed' = Min(MaxElapsed, elapsed + sleepDuration)
    /\ IF elapsed + sleepDuration > session.expires_in
       THEN /\ ppc' = "threw"
            /\ result' = "Device code expired. Please run auth again."
            /\ UNCHANGED polls
       ELSE /\ ppc' = "fetch"
            /\ polls' = Min(MaxPolls, polls + 1)
            /\ UNCHANGED result
    /\ UNCHANGED <<session, sleepDuration, backoffs, answers, data>>
    /\ UNCHANGED notPoll

\* `await sleep(sleepDuration)` is over and the poll request is sent.
SleepDone ==
    /\ ppc = "sleep"
    /\ waited' = waited + sleepDuration
    /\ elapsed' = Min(MaxElapsed, elapsed + sleepDuration)
    /\ polls' = Min(MaxPolls, polls + 1)
    /\ ppc' = "fetch"
    /\ UNCHANGED <<session, sleepDuration, backoffs, answers, data, result>>
    /\ UNCHANGED notPoll

\* `const data = await res.json()`: the response r has arrived.
received(r) ==
    /\ ppc = "fetch"
    /\ data' = r
    /\ answers' = IF Len(answers) < MaxPolls THEN Append(answers, r) ELSE answers
    /\ waited' = 0

\* `if (data.access_token) return data.access_token`
Granted ==
    /\ \E r \in PollResponses :
          /\ TruthyStr(r, "access_token")
          /\ received(r)
          /\ result' = r.access_token
    /\ ppc' = "returned"
    /\ UNCHANGED <<session, sleepDuration, polls, backoffs, elapsed>>
    /\ UNCHANGED notPoll

\* Pending with the next request sent at once.
PendingImmediate ==
    /\ \E r \in PollResponses :
          /\ ~TruthyStr(r, "access_token")
          /\ "error" \in DOMAIN r /\ r.error = "authorization_pending"
          /\ received(r)
    /\ ppc' = "fetch"
    /\ polls' = Min(MaxPolls, polls + 1)
    /\ UNCHANGED <<session, sleepDuration, backoffs, elapsed, result>>
    /\ UNCHANGED notPoll

\* `if (data.error === "authorization_pending") continue`
Pending ==
    /\ \E r \in PollResponses :
          /\ ~TruthyStr(r, "access_token")
          /\ "error" \in DOMAIN r /\ r.error = "authorization_pending"
          /\ received(r)
    /\ ppc' = "sleep"
    /\ UNCHANGED <<session, sleepDuration, polls, backoffs, elapsed, result>>
    /\ UNCHANGED notPoll

\* SlowDown without the sleep(5000).
SlowDownNoBackoff ==
    /\ \E r \in PollResponses :
          /\ ~TruthyStr(r, "access_token")
          /\ "error" \in DOMAIN r /\ r.error = "slow_down"
          /\ received(r)
    /\ ppc' = "sleep"
    /\ UNCHANGED <<session, sleepDuration, polls, backoffs, elapsed, result>>
    /\ UNCHANGED notPoll

\* SlowDown adding the five seconds to the interval of every later iteration.
SlowDownRaisesInterval ==
    /\ \E r \in PollResponses :
          /\ ~TruthyStr(r, "access_token")
          /\ "error" \in DOMAIN r /\ r.error = "slow_down"
          /\ received(r)
    /\ ppc' = "backoff"
    /\ backoffs' = Min(MaxPolls, backoffs + 1)
    /\ sleepDuration' = Min(sleepDuration + LongBackoff, 2 * LongBackoff)
    /\ UNCHANGED <<session, polls, elapsed, result>>
    /\ UNCHANGED notPoll

\* `if (data.error === "slow_down") { await sleep(5000); ...`: up to the await.
SlowDown ==
    /\ \E r \in PollResponses :
          /\ ~TruthyStr(r, "access_token")
          /\ "error" \in DOMAIN r /\ r.error = "slow_down"
          /\ received(r)
    /\ ppc' = "backoff"
    /\ backoffs' = Min(MaxPolls, backoffs + 1)
    /\ UNCHANGED <<session, sleepDuration, polls, elapsed, result>>
    /\ UNCHANGED notPoll

\* `await sleep(5000)` is over; `continue`.
BackoffDone ==
    /\ ppc = "backoff"
    /\ waited' = waited + LongBackoff
    /\ elapsed' = Min(MaxElapsed, elapsed + LongBackoff)
    /\ ppc' = "sleep"
    /\ UNCHANGED <<session, sleepDuration, polls, backoffs, answers, data, result>>
    /\ UNCHANGED notPoll

\* `if (data.error === "expired_token") throw new Error(...)`
Expired ==
    /\ \E r \in PollResponses :
          /\ ~TruthyStr(r, "access_token")
          /\ "error" \in DOMAIN r /\ r.error = "expired_token"
          /\ received(r)
    /\ ppc' = "threw"
    /\ result' = "Device code expired. Please run auth again."
    /\ UNCHANGED <<session, sleepDuration, polls, backoffs, elapsed>>
    /\ UNCHANGED notPoll

\* Errors the loop goes on after.
Transient == {"authorization_pending", "slow_down"}

\* Denied taken as one more authorization_pending.
DeniedContinues ==
    /\ \E r \in PollResponses :
          /\ ~TruthyStr(r, "access_token")
          /\ TruthyStr(r, "error")
          /\ r.error \notin Transient \cup {"expired_token"}
          /\ received(r)
    /\ ppc' = "sleep"
    /\ UNCHANGED <<session, sleepDuration, polls, backoffs, elapsed, result>>
    /\ UNCHANGED notPoll

\* `if (data.error) throw new Error(data.error_description || data.error)`
Denied ==
    /\ \E r \in PollResponses :
          /\ ~TruthyStr(r, "access_token")
          /\ TruthyStr(r, "error")
          /\ r.error \notin Transient \cup {"expired_token"}
          /\ received(r)
          /\ result' = IF TruthyStr(r, "error_description")
                       THEN r.error_description ELSE r.error
    /\ ppc' = "threw"
    /\ UNCHANGED <<session, sleepDuration, polls, backoffs, elapsed>>
    /\ UNCHANGED notPoll

\* Unclassified taken as a failure of the flow.
UnclassifiedThrows ==
    /\ \E r \in PollResponses :
          /\ ~TruthyStr(r, "access_token")
          /\ ~TruthyStr(r, "error")
          /\ received(r)
    /\ ppc' = "threw"
    /\ result' = "Unexpected response"
    /\ UNCHANGED <<session, sleepDuration, polls, backoffs, elapsed>>
    /\ UNCHANGED notPoll

\* Neither access_token nor error: the body of the loop ends and `while
\* (true)` starts the next iteration.
Unclassified ==
    /\ \E r \in PollResponses :
          /\ ~TruthyStr(r, "access_token")
          /\ ~TruthyStr(r, "error")
          /\ received(r)
    /\ ppc' = "sleep"
    /\ UNCHANGED <<session, sleepDuration, polls, backoffs, elapsed, result>>
    /\ UNCHANGED notPoll

NextPoll ==
    \/ SleepDone
    \/ Granted
    \/ Pending
    \/ SlowDown
    \/ BackoffDone
    \/ Expired
    \/ Denied
    \/ Unclassified

SpecPoll == InitPoll /\ [][NextPoll]_vars

\* The same with every timer firing and every request answered.
FairSpecPoll == SpecPoll /\ WF_vars(NextPoll)

\* ------------------------------------------- claims about pollAccessToken
\* data.error, "" when the response has none.
ErrorOf(r) == IF "error" \in DOMAIN r THEN r.error ELSE ""

\* The responses the loop ends on: a token, or an error that is neither
\* authorization_pending nor slow_down.
IsTerminal(r) ==
    \/ TruthyStr(r, "access_token")
    \/ TruthyStr(r, "error") /\ r.error \notin Transient

Ended == ppc \in {"returned", "threw"}

RECURSIVE SlowDowns(_)
SlowDowns(as) ==
    IF as = <<>> THEN 0
    ELSE (IF ErrorOf(Head(as)) = "slow_down" THEN 1 ELSE 0) + SlowDowns(Tail(as))

\* C15: while responses are recorded, pollAccessToken has issued one poll
\* request per response received, plus the one in flight; it has made one
\* sleep(5000) per slow_down received, each started at the step that received
\* the slow_down and at no other; and when it has returned, it has returned
\* the access_token of the last response.
C15_OnePollPerResponseOneBackoffPerSlowDown ==
    /\ [](Len(answers) < MaxPolls =>
             /\ polls = Len(answers) + (IF ppc = "fetch" THEN 1 ELSE 0)
             /\ backoffs = SlowDowns(answers))
    /\ [](ppc = "backoff" => ErrorOf(data) = "slow_down")
    /\ [](ppc = "returned" =>
             /\ TruthyStr(data, "access_token") /\ result = data.access_token
             /\ polls < MaxPolls => answers[Len(answers)] = data)
    /\ [][ppc' = "backoff" /\ ppc # "backoff" =>
             /\ ppc = "fetch" /\ ErrorOf(data') = "slow_down"
             /\ backoffs' = Min(MaxPolls, backoffs + 1)]_vars

\* The responses pending, pending, slow_down, token were received in this
\* order on four requests, with one long back-off, and the token was
\* returned.
C15_Witness ==
    /\ ppc = "returned"
    /\ Len(answers) = 4
    /\ ErrorOf(answers[1]) = "authorization_pending"
    /\ ErrorOf(answers[2]) = "authorization_pending"
    /\ ErrorOf(answers[3]) = "slow_down"
    /\ TruthyStr(answers[4], "access_token")
    /\ polls = 4 /\ backoffs = 1
    /\ result = "gho_1"

\* C16: after a slow_down the loop sleeps LongBackoff seconds and then, at
\* the top of the loop, sleepDuration: the next request is sent LongBackoff +
\* interval + 1 seconds after the slow_down; sleepDuration is interval + 1
\* throughout, so a request that follows any other response is sent
\* interval + 1 seconds after it.
C16_FixedBackoffIntervalUnchanged ==
    /\ sleepDuration = session.interval + 1
    /\ (ppc = "backoff") => waited = 0
    /\ (ppc = "sleep" /\ ErrorOf(data) = "slow_down") => waited = LongBackoff
    /\ (ppc = "fetch" /\ ErrorOf(data) = "slow_down") =>
          waited = LongBackoff + session.interval + 1
    /\ (ppc = "fetch" /\ ErrorOf(data) # "slow_down") =>
          waited = session.interval + 1

\* A request was sent interval + 1 seconds after an authorization_pending
\* that followed a slow_down.
C16_Witness ==
    /\ ppc = "fetch"
    /\ Len(answers) = 2
    /\ ErrorOf(answers[1]) = "slow_down"
    /\ ErrorOf(answers[2]) = "authorization_pending"
    /\ backoffs = 1
    /\ waited = session.interval + 1

\* C17: the step that classifies a response ends the loop exactly when the
\* response is terminal: with a token it returns that token; with
\* expired_token it throws the "Device code expired" error; with any other
\* error than authorization_pending and slow_down it throws an error whose
\* message is the provider's error_description (the error code when the
\* provider sent no description). Once ended, no request is issued.
C17_TerminalOutcomes ==
    [][/\ (ppc = "fetch" /\ ppc' # "fetch") =>
             /\ TruthyStr(data', "access_token") =>
                   (ppc' = "returned" /\ result' = data'.access_token)
             /\ (~TruthyStr(data', "access_token")
                 /\ ErrorOf(data') = "expired_token") =>
                   /\ ppc' = "threw"
                   /\ result' = "Device code expired. Please run auth again."
             /\ (/\ ~TruthyStr(data', "access_token")
                 /\ ErrorOf(data') \notin Transient \cup {"expired_token", ""}) =>
                   /\ ppc' = "threw"
                   /\ result' = IF TruthyStr(data', "error_description")
                                THEN data'.error_description ELSE data'.error
             /\ ~IsTerminal(data') => ppc' \in {"sleep", "backoff"}
       /\ Ended => (ppc' = ppc /\ polls' = polls /\ result' = result)]_vars

\* The loop has ended on access_denied, throwing the provider's description.
C17_Witness ==
    /\ ppc = "threw"
    /\ ErrorOf(data) = "access_denied"
    /\ result = "denied by the user"
    /\ polls = 2

\* C18: a poll request is sent only when a sleep(sleepDuration) ends: at
\* that moment at least interval + 1 seconds were slept since the previous
\* response (since the start for the first request).
C18_IntervalBeforeEveryPoll ==
    /\ [](ppc = "fetch" => waited >= session.interval + 1)
    /\ [][ppc' = "fetch" =>
             \/ ppc = "fetch" /\ waited' = waited
             \/ ppc = "sleep" /\ waited' = waited + session.interval + 1]_vars

\* The second request was sent interval + 1 = 2 seconds after an
\* authorization_pending.
C18_Witness ==
    /\ ppc = "fetch"
    /\ polls = 2
    /\ Len(answers) = 1 /\ ErrorOf(answers[1]) = "authorization_pending"
    /\ session.interval = 1
    /\ waited = 2

\* C19: the loop has ended only if the last response was terminal, and the
\* step that receives a terminal response ends it; otherwise it goes on:
\* with timers firing and requests answered, either it ends or it sends
\* poll requests again and again, however long it has been polling.
C19_NoCapNoDeadline ==
    /\ [](Ended => IsTerminal(data))
    /\ [][(ppc = "fetch" /\ ppc' # "fetch") =>
             (IsTerminal(data') <=> ppc' \in {"returned", "threw"})]_vars
    /\ ([]<>(ppc = "fetch") \/ <>Ended)

\* Only authorization_pending was received, on MaxPolls requests, and a
\* further request is in flight after expires_in seconds have passed.
C19_Witness ==
    /\ ppc = "fetch"
    /\ elapsed > session.expires_in
    /\ Len(answers) = MaxPolls
    /\ \A i \in 1..Len(answers) : ErrorOf(answers[i]) = "authorization_pending"

\* -------------------------------------------------------------- handleError
\* Statuses with which chat, chatStream, getModels, createEmbedding and
\* getUsage call handleError (res.ok is false).
ErrorStatuses == {400, 401, 403, 404, 429, 500, 503}

\* Values of the retry-after header, as texts: "30", "0", "120", "30s", " 7",
\* the start of an HTTP-date, and the empty text.
RetryAfterTexts ==
    { <<"3", "0">>, <<"0">>, <<"1", "2", "0">>, <<"3", "0", "s">>,
      <<" ", "7">>, <<"W", "e", "d", ",">>, <<>> }

\* Responses: a status, headers with or without retry-after, a body text.
ErrorResponses ==
    [status : ErrorStatuses,
     headers : {[other |-> "x"]}
                 \cup {[other |-> "x", retryAfter |-> h] : h \in RetryAfterTexts},
     body : {"", "{\"message\":\"m\"}"}]

Digits == {"0", "1", "2", "3", "4", "5", "6", "7", "8", "9"}
DigitValue(c) ==
    CASE c = "0" -> 0 [] c = "1" -> 1 [] c = "2" -> 2 [] c = "3" -> 3
      [] c = "4" -> 4 [] c = "5" -> 5 [] c = "6" -> 6 [] c = "7" -> 7
      [] c = "8" -> 8 [] c = "9" -> 9

\* The decimal digits s starts with at i, read as a number on top of acc.
RECURSIVE digitsFrom(_, _, _)
digitsFrom(s, i, acc) ==
    IF i > Len(s) \/ s[i] \notin Digits THEN acc
    ELSE digitsFrom(s, i + 1, 10 * acc + DigitValue(s[i]))

\* parseInt(s, 10): leading white space is skipped, the digits that follow
\* are read up to the first other character; without a digit there the
\* result is NaN.
RECURSIVE parseInt(_)
parseInt(s) ==
    IF s # <<>> /\ s[1] \in WhiteSpace THEN parseInt(Tail(s))
    ELSE IF s = <<>> \/ s[1] \notin Digits THEN [nan |-> TRUE]
    ELSE [value |-> digitsFrom(s, 1, 0)]

\* new CopilotError / AuthenticationError(message, status, body)
CopilotError(name, message, status, bodyText) ==
    [name |-> name, message |-> message, status |-> status, body |-> bodyText]

\* new RateLimitError(message, retryAfter): status 429, no body; retryAfter
\* is left out of the record when it is undefined.
RateLimitError(message, retryAfter) ==
    IF retryAfter = Undefined
    THEN [name |-> "RateLimitError", message |-> message, status |-> 429]
    ELSE [name |-> "RateLimitError", message |-> message, status |-> 429,
          retryAfter |-> retryAfter]

\* res.headers.get("retry-after"), then `retryAfter ? parseInt(...) :
\* undefined`: a missing header and an empty one are falsy.
retryAfterOf(r) ==
    IF "retryAfter" \in DOMAIN r.headers /\ r.headers.retryAfter # <<>>
    THEN parseInt(r.headers.retryAfter)
    ELSE Undefined

\* The error handleError(res) throws.
handleErrorThrows(r) ==
    IF handleError(r.status) = "AuthenticationError"
    THEN CopilotError("AuthenticationError", "Authentication failed",
                      r.status, r.body)
    ELSE IF handleError(r.status) = "RateLimitError"
    THEN RateLimitError("Rate limit exceeded", retryAfterOf(r))
    ELSE CopilotError("CopilotError", <<"API error: ", r.status>>,
                      r.status, r.body)

\* A method has found !res.ok and calls handleError(res).
InitError ==
    /\ ClientAtRest
    /\ StreamOff
    /\ PollOff
    /\ MainOff
    /\ CreateOff
    /\ PairOff
    /\ res \in ErrorResponses
    /\ thrown = [none |-> TRUE]

\* handleError reads the body and throws.
HandleError ==
    /\ thrown = [none |-> TRUE]
    /\ thrown' = handleErrorThrows(res)
    /\ UNCHANGED res
    /\ UNCHANGED notError

NextError == HandleError

SpecError == InitError /\ [][NextError]_vars

\* ----------------------------------------------- claim about handleError
\* The header is a decimal number.
IsDecimal(h) == h # <<>> /\ \A i \in 1..Len(h) : h[i] \in Digits

\* C20 as stated: a non-success status maps to exactly one error: 401 and
\* 403 to AuthenticationError; 429 to RateLimitError, whose retryAfter is
\* absent when the response has no (or an empty) retry-after header and is
\* otherwise an integer, the value of the header when that is a decimal
\* number; any other status to CopilotError with the status and the body.
C20_StatusMapsToOneError ==
    thrown # [none |-> TRUE] =>
       /\ res.status \in {401, 403} =>
             /\ thrown.name = "AuthenticationError"
             /\ thrown.status = res.status /\ thrown.body = res.body
       /\ res.status = 429 =>
             /\ thrown.name = "RateLimitError"
             /\ ("retryAfter" \notin DOMAIN res.headers
                 \/ res.headers.retryAfter = <<>>) =>
                   "retryAfter" \notin DOMAIN thrown
             /\ ("retryAfter" \in DOMAIN res.headers
                 /\ res.headers.retryAfter # <<>>) =>
                   /\ "retryAfter" \in DOMAIN thrown
                   /\ "value" \in DOMAIN thrown.retryAfter
                   /\ IsDecimal(res.headers.retryAfter) =>
                         thrown.retryAfter.value
                            = digitsFrom(res.headers.retryAfter, 1, 0)
       /\ res.status \notin {401, 403, 429} =>
             /\ thrown.name = "CopilotError"
             /\ thrown.status = res.status /\ thrown.body = res.body

Paired(r) == "copilotToken" \in DOMAIN r => "copilotTokenExpiry" \in DOMAIN r

\* Record r holds a GitHub token and no access token.
PreExchange(r) == TruthyStr(r, "githubToken") /\ "copilotToken" \notin DOMAIN r

\* C22: in the record in memory, in the auth file and in every text handed
\* to a write, copilotToken is absent or comes with copilotTokenExpiry: as
\* loaded, and after any number of refreshes. On a record holding only the
\* GitHub token isTokenValid() answers false and ensureToken() issues a token
\* exchange.
C22_TokenPairedWithExpiry ==
    /\ [](/\ Paired(authData)
          /\ Paired(file)
          /\ \A o \in Ops : Paired(text[o]))
    /\ [](\A o \in Ops :
             (pc[o] = "done" /\ kind[o] = "isTokenValid" /\ PreExchange(authData))
                => ~ret[o])
    /\ [][\A o \in Ops :
             (EntersEnsure(o) /\ PreExchange(authData)) =>
                (pc'[o] = "awaitToken" /\ tokenReqs'[o] = 1)]_vars

\* A record loaded with only the GitHub token has been refreshed and
\* written: memory and file hold the token with its expiry.
C22_Witness ==
    \E o \in Ops :
        /\ pc[o] = "ensured" /\ tokenReqs[o] = 1 /\ writes[o] = 1
        /\ file = authData
        /\ DOMAIN authData = {"githubToken", "createdAt", "copilotToken",
                              "copilotTokenExpiry", "refreshIn"}
        /\ authData.copilotToken = "t2" /\ authData.copilotTokenExpiry = 2

\* Tokens the provider grants.
GrantedTokens == {d.token : d \in TokenResponses}

\* C23 as stated: the steps of a chat / chatStream call come in the order
\* validity check, token exchange request, its answer with the update of the
\* record, the persist, the API request; the API request of a call that
\* refreshed is issued only after its write has completed, and it carries
\* the access token the record holds after that refresh.
C23_RefreshThenRequest ==
    [][\A o \in {q \in Ops : kind'[q] \in ApiKinds} :
          /\ tokenReqs'[o] = tokenReqs[o] + 1 =>
                (pc[o] = "idle" /\ ~Usable /\ pc'[o] = "awaitToken")
          /\ (pc[o] = "awaitToken" /\ pc'[o] = "mkdir") =>
                (authData'.copilotToken \in GrantedTokens /\ apiReqs'[o] = 0)
          /\ writes'[o] = writes[o] + 1 =>
                (pc[o] = "writeFile" /\ apiReqs'[o] = 0)
          /\ apiReqs'[o] = apiReqs[o] + 1 =>
                /\ pc[o] = "ensured"
                /\ tokenReqs[o] = 1 =>
                      /\ writes[o] = 1
                      /\ "copilotToken" \in DOMAIN authData
                      /\ authData.copilotToken \in GrantedTokens
                      /\ auth'[o] = authData.copilotToken]_vars

\* The access-token fields.
TokenKeys == {"copilotToken", "copilotTokenExpiry", "refreshIn"}

\* C28 as stated: when a refresh completes its write and no other refresh or
\* persist is in flight on the client, the file and the record in memory
\* hold the same copilotToken, copilotTokenExpiry and refreshIn, also when
\* refreshes overlapped.
C28_FileEqualsMemoryWhenQuiet ==
    [][\A o \in Ops :
          (writes'[o] = writes[o] + 1 /\ ~OtherRefreshing(o)) =>
             \A k \in TokenKeys : SameAt(file', authData', k)]_vars

\* The access-token fields of record r are absent, or are those of one
\* answer of the token endpoint, or those the record was written with by the
\* device flow.
FromOneResponse(r) ==
    \/ DOMAIN r \cap TokenKeys = {}
    \/ /\ TokenKeys \subseteq DOMAIN r
       /\ \/ \E d \in TokenResponses :
                /\ r.copilotToken = d.token
                /\ r.copilotTokenExpiry = d.expires_at
                /\ r.refreshIn = d.refresh_in
          \/ \E f \in InitialFiles :
                /\ TokenKeys \subseteq DOMAIN f
                /\ \A k \in TokenKeys : r[k] = f[k]

\* C29: in every reachable state, refreshes in flight included, the
\* copilotToken, copilotTokenExpiry and refreshIn of the record in memory
\* (and of the file and of every text being written) are those of one and
\* the same provider answer.
C29_TokenFieldsFromOneResponse ==
    /\ FromOneResponse(authData)
    /\ FromOneResponse(file)
    /\ \A o \in Ops : FromOneResponse(text[o])

\* Two refreshes with different answers are past their exchange at once:
\* one is writing the record of the first answer, the record in memory is
\* that of the second.
C29_Witness ==
    \E o, p \in Ops :
        /\ o # p /\ pc[o] = "writeFile" /\ pc[p] = "mkdir"
        /\ TokenKeys \subseteq DOMAIN text[o] /\ TokenKeys \subseteq DOMAIN authData
        /\ text[o].copilotToken = "t3" /\ text[o].copilotTokenExpiry > 2
        /\ authData.copilotToken = "t2" /\ authData.copilotTokenExpiry = 2

\* C30: the step at which the persist of a refresh fails (mkdir or
\* writeFile) fails the operation and leaves the record in memory, with the
\* fields the refresh assigned, and the file as they are. An ensureToken()
\* entered afterwards while that token is valid issues no exchange and
\* starts no write, so the file keeps its old access token.
C30_FailedPersistKeepsNewToken ==
    [][\A o \in Ops :
          /\ (pc[o] \in {"mkdir", "writeFile"} /\ pc'[o] = "failed") =>
                /\ err'[o] = "Error"
                /\ authData' = authData
                /\ file' = file
                /\ writes'[o] = 0
          /\ (EntersEnsure(o) /\ Usable) =>
                /\ pc'[o] = "ensured" /\ tokenReqs'[o] = 0
                /\ authData' = authData /\ file' = file
                /\ text'[o] = NoFile]_vars

\* After a refresh whose persist failed (the record in memory holds "t3",
\* the file still "t0", nothing in flight) a chat has passed ensureToken()
\* without an exchange.
C30_Witness ==
    \E o \in Ops :
        /\ kind[o] = "chat" /\ pc[o] = "ensured"
        /\ tokenReqs[o] = 0 /\ writes[o] = 0
        /\ \A p \in Ops \ {o} : pc[p] = "idle"
        /\ Usable
        /\ authData.copilotToken = "t3"
        /\ "copilotToken" \in DOMAIN file /\ file.copilotToken = "t0"

\* ------------------------------------------- further claims about decoding
\* The items of seq before the first one equal to x.
RECURSIVE upTo(_, _, _, _)
upTo(seq, x, i, out) ==
    IF i > Len(seq) \/ seq[i] = x THEN out
    ELSE upTo(seq, x, i + 1, Append(out, seq[i]))

IsDataLine(line) == startsWith(line, PrefixData)
IsNonEmpty(payload) == payload # <<>>
Parses(payload) == JSONParseChunk(payload).ok
Parsed(payload) == JSONParseChunk(payload).value

\* The trimmed payloads of data lines, and the values of payloads that parse.
payloadsOf(ls) == [i \in DOMAIN ls |-> dataOf(ls[i])]
valuesOf(ps) == [i \in DOMAIN ps |-> Parsed(ps[i])]

\* The reference result for the bytes b: the newline-terminated lines of the
\* decoded text, of these the data lines, their trimmed payloads, those
\* before the first "[DONE]", of these the non-empty ones that parse, parsed.
Reference(b) ==
    LET parts == split(TextDecode(<<>>, b).text)
        terminated == SubSeq(parts, 1, Len(parts) - 1)
        payloads == payloadsOf(SelectSeq(terminated, IsDataLine))
        live == upTo(payloads, Sentinel, 1, <<>>)
    IN  valuesOf(SelectSeq(SelectSeq(live, IsNonEmpty), Parses))

\* C25: for every body and every way it arrives in chunks, the chunks
\* yielded are at each moment a prefix of the reference result and, when the
\* generator has ended, equal to it; a step on a line that is no data line,
\* or on a data line whose trimmed payload is empty, yields nothing and goes
\* on with the next line.
C25_DecoderEqualsReference ==
    /\ [](/\ IsPrefix(yielded, Reference(body))
          /\ gen = "ended" => yielded = Reference(body))
    /\ [][(/\ gen = "lines" /\ lines # <<>>
           /\ \/ ~IsDataLine(Head(lines))
              \/ dataOf(Head(lines)) = <<>>) =>
              (yielded' = yielded /\ gen' = "lines" /\ lines' = Tail(lines))]_vars

\* The body keep-alive, empty line, 1 has been decoded to its end, cut
\* somewhere: only the 1 was yielded.
C25_Witness ==
    /\ gen = "ended"
    /\ plan = <<"keep", "blank", "one">>
    /\ cuts # <<>>
    /\ yielded = <<[type |-> "number", of |-> <<"1">>]>>
    /\ yielded = Reference(body)

\* ------------------------------------------------- chatStream's response
\* Responses of POST /chat/completions to chatStream: a status, headers, the
\* text res.text() gives, and whether res.body is a stream (not null).
StreamStatuses == {200, 401, 429, 500}
StreamResponses ==
    [status : {200}, headers : {[other |-> "x"]}, body : {""}, stream : BOOLEAN]
    \cup
    [status : StreamStatuses \ {200},
     headers : {[other |-> "x"], [other |-> "x", retryAfter |-> <<"3", "0">>]},
     body : {"{\"message\":\"m\"}"},
     stream : BOOLEAN]

\* res.ok
ok(r) == r.status >= 200 /\ r.status <= 299

\* chatStream has been called and pulled once: ensureToken() has returned
\* and the fetch is awaited. A response with a body carries the bytes of a
\* plan.
InitChatStream ==
    /\ ClientAtRest
    /\ PollOff
    /\ MainOff
    /\ CreateOff
    /\ PairOff
    /\ res \in StreamResponses
    /\ thrown = [none |-> TRUE]
    /\ plan \in IF res.stream THEN Plans ELSE {<<>>}
    /\ body = BodyOf(plan)
    /\ readPos = 0 /\ cuts = <<>>
    /\ decoder = <<>> /\ buffer = <<>> /\ lines = <<>> /\ yielded = <<>>
    /\ gen = "fetch"

\* StreamResponse without the check of res.ok.
StreamResponseUnchecked ==
    /\ gen = "fetch"
    /\ IF ~res.stream
       THEN /\ gen' = "failed"
            /\ thrown' = CopilotError("CopilotError",
                             "No response body for streaming", Undefined, Undefined)
       ELSE /\ gen' = "read"
            /\ UNCHANGED thrown
    /\ UNCHANGED <<plan, body, readPos, cuts, decoder, buffer, lines, yielded, res>>
    /\ UNCHANGED notChatStream

\* The fetch settles: handleError throws for a response that is not ok, a
\* response without body throws CopilotError, otherwise the reader and the
\* decoder are created and the loop starts.
StreamResponse ==
    /\ gen = "fetch"
    /\ IF ~ok(res)
       THEN /\ gen' = "failed"
            /\ thrown' = handleErrorThrows(res)
       ELSE IF ~res.stream
       THEN /\ gen' = "failed"
            /\ thrown' = CopilotError("CopilotError",
                             "No response body for streaming", Undefined, Undefined)
       ELSE /\ gen' = "read"
            /\ UNCHANGED thrown
    /\ UNCHANGED <<plan, body, readPos, cuts, decoder, buffer, lines, yielded, res>>
    /\ UNCHANGED notChatStream

NextChatStream ==
    \/ StreamResponse
    \/ NextStream

SpecChatStream == InitChatStream /\ [][NextChatStream]_vars

\* C26: the step at which chatStream's fetch settles fails the generator
\* for a status that is not a success, with the error of the status mapping,
\* and for a response without body, with CopilotError; only a successful
\* response with a body starts the decoding. A failed generator has yielded
\* nothing and stays failed, and every chunk yielded comes from a successful
\* response with a body.
C26_FailedResponseYieldsNothing ==
    /\ [](/\ gen \in {"fetch", "failed"} => yielded = <<>>
          /\ yielded # <<>> => (ok(res) /\ res.stream)
          /\ gen = "failed" <=> thrown # [none |-> TRUE])
    /\ [][/\ gen = "fetch" =>
                IF ~ok(res)
                THEN /\ gen' = "failed"
                     /\ thrown'.name = handleError(res.status)
                     /\ thrown'.status = res.status
                ELSE IF ~res.stream
                THEN /\ gen' = "failed"
                     /\ thrown'.name = "CopilotError"
                     /\ thrown'.message = "No response body for streaming"
                ELSE gen' = "read"
          /\ gen = "failed" => (gen' = "failed" /\ thrown' = thrown)]_vars

\* A 429 whose body holds a well-formed data frame has failed the generator
\* with RateLimitError; nothing was read and nothing yielded.
C26_Witness ==
    /\ gen = "failed"
    /\ res.status = 429 /\ res.stream
    /\ plan = <<"one">>
    /\ thrown.name = "RateLimitError"
    /\ readPos = 0 /\ yielded = <<>>

\* ------------------------------------------------------ createCopilotClient
\* The location the README names as the default of authFile, and another.
DefaultAuthFile == "~/.copilot-sdk/auth.json"
Paths == {DefaultAuthFile, "./auth.json"}

\* `{}`
EmptyObject == [object |-> TRUE]

\* A file whose content is not JSON.
Garbage == [garbage |-> TRUE]

\* What a path may hold: nothing, a record as auth.ts writes it, or garbage.
DiskContents ==
    { NoFile,
      [githubToken |-> "gh", copilotToken |-> "t0", copilotTokenExpiry |-> 1,
       refreshIn |-> 0, createdAt |-> "c", user |-> "u"],
      Garbage }

\* Arguments of createCopilotClient: none, {}, and objects with and without
\* authFile and refreshBuffer.
CreateConfigs ==
    { Undefined,
      EmptyObject,
      [refreshBuffer |-> 30],
      [authFile |-> ""],
      [authFile |-> "./auth.json"],
      [authFile |-> DefaultAuthFile],
      [authFile |-> "./auth.json", refreshBuffer |-> 30],
      [authFile |-> "./auth.json", refreshBuffer |-> 0] }

\* What `new CopilotClient(cfg)` throws: `config.authFile` on undefined is a
\* TypeError, a missing or empty authFile an AuthenticationError.
constructorThrows(cfg) ==
    IF cfg = Undefined
    THEN [name |-> "TypeError", message |-> "Cannot read properties of undefined"]
    ELSE IF ~TruthyStr(cfg, "authFile")
    THEN [name |-> "AuthenticationError", message |-> "authFile is required"]
    ELSE [none |-> TRUE]

\* createCopilotClient(config) has been called.
InitCreate ==
    /\ ClientAtRest
    /\ StreamOff
    /\ PollOff
    /\ ErrorOff
    /\ MainOff
    /\ PairOff
    /\ config \in CreateConfigs
    /\ disk \in [Paths -> DiskContents]
    /\ cpc = "new"
    /\ made = [none |-> TRUE]

\* `new CopilotClient(config)`, then init() up to `await fs.readFile`.
NewCopilotClient ==
    /\ cpc = "new"
    /\ IF constructorThrows(config) # [none |-> TRUE]
       THEN /\ cpc' = "rejected"
            /\ made' = [error |-> constructorThrows(config)]
       ELSE /\ cpc' = "readFile"
            /\ made' = [client |->
                          [config |-> [authFile |-> config.authFile,
                                       refreshBuffer |-> constructor(config)],
                           authData |-> Undefined]]
    /\ UNCHANGED <<config, disk>>
    /\ UNCHANGED <<clientVars, streamVars, pollVars, errorVars, mainVars, pairVars>>

\* loadAuth() of the new client: the file is read and parsed and the client
\* returned, or the catch throws AuthenticationError.
CreateLoadAuth ==
    /\ cpc = "readFile"
    /\ IF disk[made.client.config.authFile] \in {NoFile, Garbage}
       THEN /\ cpc' = "rejected"
            /\ made' = [error |-> [name |-> "AuthenticationError",
                                   message |-> "Auth file not found"]]
       ELSE /\ cpc' = "returned"
            /\ made' = [client |->
                          [config |-> made.client.config,
                           authData |-> JSONParse(disk[made.client.config.authFile])]]
    /\ UNCHANGED <<config, disk>>
    /\ UNCHANGED <<clientVars, streamVars, pollVars, errorVars, mainVars, pairVars>>

NextCreate ==
    \/ NewCopilotClient
    \/ CreateLoadAuth

SpecCreate == InitCreate /\ [][NextCreate]_vars

\* C24 as stated: createCopilotClient called with no argument, or with an
\* object without authFile, while the default location holds a record, does
\* not fail: it constructs a client whose authFile is the default location
\* and whose refreshBuffer is the one given, or 60, and returns it with the
\* record of the default file loaded.
C24_NoConfigUsesDefaults ==
    (/\ cpc \notin {"off", "new"}
     /\ "authFile" \notin DOMAIN config
     /\ disk[DefaultAuthFile] \notin {NoFile, Garbage}) =>
       /\ cpc # "rejected"
       /\ made.client.config = [authFile |-> DefaultAuthFile,
                                refreshBuffer |-> constructor(config)]
       /\ cpc = "returned" =>
             made.client.authData = JSONParse(disk[DefaultAuthFile])

\* ------------------------------------------ main() of the authentication script
\* Everything of the client but the auth file.
clientButFile == <<now, refreshBuffer, authData, modelsCache, pc, kind, text,
                   tokenReqs, apiReqs, writes, auth, ret, err, lapsed>>

\* What AUTH_FILE may hold when the script is started: nothing, or the
\* record of an earlier run.
FilesBeforeAuth ==
    { NoFile,
      [githubToken |-> "gh", copilotToken |-> "t0", copilotTokenExpiry |-> 1,
       refreshIn |-> 0, createdAt |-> "c", user |-> "u"] }

\* Statuses of github.com/login/device/code, and whether api.github.com/user
\* answers with success.
DeviceCodeStatuses == {200, 500}

\* main() has been started and awaits getDeviceCode().
InitMain ==
    /\ ClientIdle
    /\ file \in FilesBeforeAuth
    /\ StreamOff
    /\ PollOff
    /\ ErrorOff
    /\ CreateOff
    /\ PairOff
    /\ mpc = "getDeviceCode"
    /\ steps = <<>>
    /\ got = NothingGot
    /\ exitMsg = ""

\* `catch (error)`: the message is printed and the process exits with 1.
exit(msg) ==
    /\ mpc' = "exit"
    /\ exitMsg' = msg
    /\ UNCHANGED <<steps, got, file>>

\* getDeviceCode() settles; on success pollAccessToken is called and runs up
\* to its first sleep.
GetDeviceCode ==
    /\ mpc = "getDeviceCode"
    /\ \E status \in DeviceCodeStatuses :
          IF status = 200
          THEN /\ \E s \in Sessions :
                     /\ session' = s
                     /\ sleepDuration' = sleepDurationOf(s.interval)
               /\ ppc' = "sleep"
               /\ mpc' = "pollAccessToken"
               /\ steps' = Append(steps, "deviceCode")
               /\ UNCHANGED <<got, exitMsg, file>>
          ELSE /\ exit("Failed to get device code")
               /\ UNCHANGED <<session, sleepDuration, ppc>>
    /\ UNCHANGED <<polls, backoffs, answers, data, waited, elapsed, result>>
    /\ UNCHANGED <<clientButFile, streamVars, errorVars, createVars,
                 pairVars>>

\* pollAccessToken has returned the GitHub token: getUser is called. Or it
\* has thrown.
PollSettled ==
    /\ mpc = "pollAccessToken"
    /\ ppc \in {"returned", "threw"}
    /\ IF ppc = "returned"
       THEN /\ got' = [got EXCEPT !.githubToken = result]
            /\ steps' = Append(steps, "githubToken")
            /\ mpc' = "getUser"
            /\ UNCHANGED <<exitMsg, file>>
       ELSE exit(result)
    /\ UNCHANGED <<clientButFile, streamVars, pollVars, errorVars, createVars,
                 pairVars>>

\* GetUser going on without a login when the lookup fails.
GetUserOptional ==
    /\ mpc = "getUser"
    /\ \E success \in BOOLEAN :
          /\ got' = [got EXCEPT !.user = IF success THEN "u" ELSE ""]
          /\ steps' = IF success THEN Append(steps, "user") ELSE steps
          /\ mpc' = "getCopilotToken"
          /\ UNCHANGED <<exitMsg, file>>
    /\ UNCHANGED <<clientButFile, streamVars, pollVars, errorVars, createVars,
                 pairVars>>

\* getUser() settles; on success getCopilotToken is called.
GetUser ==
    /\ mpc = "getUser"
    /\ \E success \in BOOLEAN :
          IF success
          THEN /\ got' = [got EXCEPT !.user = "u"]
               /\ steps' = Append(steps, "user")
               /\ mpc' = "getCopilotToken"
               /\ UNCHANGED <<exitMsg, file>>
          ELSE exit("Failed to get user info")
    /\ UNCHANGED <<clientButFile, streamVars, pollVars, errorVars, createVars,
                 pairVars>>

\* getCopilotToken() settles; on success fs.mkdir is called.
GetCopilotToken ==
    /\ mpc = "getCopilotToken"
    /\ \E status \in TokenStatuses :
          IF status = 200
          THEN /\ \E d \in TokenResponses :
                     got' = [got EXCEPT !.copilotData = d]
               /\ steps' = Append(steps, "copilotToken")
               /\ mpc' = "mkdir"
               /\ UNCHANGED <<exitMsg, file>>
          ELSE exit(IF status = 404 THEN "Copilot subscription not found!"
                    ELSE "Failed to get Copilot token")
    /\ UNCHANGED <<clientButFile, streamVars, pollVars, errorVars, createVars,
                 pairVars>>

\* The record main() builds from what it has obtained.
authDataOf(g) ==
    [githubToken |-> g.githubToken,
     copilotToken |-> g.copilotData.token,
     copilotTokenExpiry |-> g.copilotData.expires_at,
     refreshIn |-> g.copilotData.refresh_in,
     createdAt |-> "c",
     user |-> g.user]

\* fs.mkdir settles; on success the record is built and fs.writeFile called.
MainMkdir ==
    /\ mpc = "mkdir"
    /\ \E success \in BOOLEAN :
          IF success
          THEN /\ steps' = Append(steps, "mkdir")
               /\ mpc' = "writeFile"
               /\ UNCHANGED <<got, exitMsg, file>>
          ELSE exit("EACCES")
    /\ UNCHANGED <<clientButFile, streamVars, pollVars, errorVars, createVars,
                 pairVars>>

\* fs.writeFile settles.
MainWriteFile ==
    /\ mpc = "writeFile"
    /\ \E success \in BOOLEAN :
          IF success
          THEN /\ file' = JSONStringify(authDataOf(got))
               /\ steps' = Append(steps, "writeFile")
               /\ mpc' = "saved"
               /\ UNCHANGED <<got, exitMsg>>
          ELSE exit("EACCES")
    /\ UNCHANGED <<clientButFile, streamVars, pollVars, errorVars, createVars,
                 pairVars>>

NextMain ==
    \/ GetDeviceCode
    \/ NextPoll
    \/ PollSettled
    \/ GetUser
    \/ GetCopilotToken
    \/ MainMkdir
    \/ MainWriteFile

SpecMain == InitMain /\ [][NextMain]_vars

\* The steps of a successful run, in order.
AllSteps ==
    <<"deviceCode", "githubToken", "user", "copilotToken", "mkdir", "writeFile">>

\* C27: the steps of the flow succeed in the order device session, GitHub
\* token, user lookup, first token exchange, mkdir, write. The auth file is
\* written at one step only, the write that follows all of them, and then
\* holds the GitHub token the poll returned and the access token, expiry and
\* refresh hint of the exchange; a step that fails ends the flow, which then
\* leaves the file as it was.
C27_RecordWrittenOnlyAfterAllSteps ==
    /\ [](/\ IsPrefix(steps, AllSteps)
          /\ mpc = "saved" <=> steps = AllSteps)
    /\ [][/\ file' # file =>
                /\ mpc = "writeFile" /\ mpc' = "saved"
                /\ steps = SubSeq(AllSteps, 1, 5)
                /\ ppc = "returned" /\ TruthyStr(file', "githubToken")
                /\ file'.githubToken = result
                /\ \E d \in TokenResponses :
                      /\ file'.copilotToken = d.token
                      /\ file'.copilotTokenExpiry = d.expires_at
                      /\ file'.refreshIn = d.refresh_in
          /\ mpc' = "exit" => (file' = file /\ steps' = steps)
          /\ mpc = "exit" => (mpc' = "exit" /\ file' = file)]_vars

\* A run in which the user authorised after one authorization_pending has
\* written the record with the GitHub token and the exchanged access token.
C27_Witness ==
    /\ mpc = "saved"
    /\ Len(answers) = 2 /\ answers[1] = [error |-> "authorization_pending"]
    /\ file = [githubToken |-> "gho_1", copilotToken |-> "t3",
               copilotTokenExpiry |-> DefaultRefreshBuffer + 2, refreshIn |-> 3,
               createdAt |-> "c", user |-> "u"]

\* --------------------------------------------- the unterminated last line
\* The lines of a body that a line feed ends.
Terminated(p) == SelectSeq(p, LAMBDA name : name \notin TailNames)

HasSentinelLine(p) == \E i \in DOMAIN p : p[i] = "done"

EndsUnterminated(p) == p # <<>> /\ p[Len(p)] \in TailNames

\* C31: the text still in the buffer when reader.read() reports done is
\* discarded. For a body whose last line has no line feed (the complete frame
\* `data: 1`, or `data: [DONE]`) and that has no sentinel line before it, the
\* generator does not end before the input does, that is, the unterminated
\* `[DONE]` does not end it; it then ends at that step without yielding
\* anything, having yielded the values of the terminated lines only, with the
\* last line still in the buffer.
C31_UnterminatedTailDiscarded ==
    (EndsUnterminated(plan) /\ ~HasSentinelLine(plan)) =>
        /\ IsPrefix(yielded, Expected(Terminated(plan)))
        /\ Len(lines) <= Len(Terminated(plan))
        /\ gen = "ended" =>
              /\ readPos = Len(body)
              /\ buffer = FrameBytes(plan[Len(plan)])
              /\ yielded = Expected(Terminated(plan))

\* The body 1, `data: [DONE]` without line feed has arrived whole, in two
\* chunks with the second holding the unterminated line, and the generator
\* ended only at the end of the input, with one chunk yielded.
C31_Witness ==
    /\ plan = <<"one", "donetail">>
    /\ cuts = <<"line">>
    /\ gen = "ended"
    /\ readPos = Len(body)
    /\ buffer = DoneTailBytes
    /\ yielded = <<ValueOf("one")>>

\* ------------------------------------- poll responses outside the protocol
\* The response carries neither an access token nor an error.
Neither(r) == ~TruthyStr(r, "access_token") /\ ~TruthyStr(r, "error")

\* The response carries an access token and an error.
Both(r) == TruthyStr(r, "access_token") /\ TruthyStr(r, "error")

\* C32: a poll response with neither access_token nor error is handled like
\* authorization_pending: the step that receives it does not end the loop,
\* takes no back-off and leaves the interval alone, and the next request is
\* sent, one sleep(sleepDuration) of interval + 1 seconds later. A response
\* with both an access token and an error ends polling with that token
\* returned.
C32_NeitherContinuesBothReturns ==
    /\ [][(ppc = "fetch" /\ ppc' # "fetch") =>
             /\ Neither(data') =>
                   /\ ppc' = "sleep"
                   /\ polls' = polls /\ backoffs' = backoffs
                   /\ sleepDuration' = sleepDuration /\ result' = result
             /\ Both(data') =>
                   (ppc' = "returned" /\ result' = data'.access_token)]_vars
    /\ []((ppc = "fetch" /\ Neither(data)) => waited = session.interval + 1)
    /\ ((ppc = "sleep" /\ Neither(data)) ~> ppc = "fetch")

\* A response without token and error was received on the first request; the
\* second request, sent interval + 1 seconds later, was answered with a token
\* and access_denied, and the loop returned the token.
C32_Witness ==
    /\ ppc = "returned"
    /\ polls = 2
    /\ Len(answers) = 2
    /\ Neither(answers[1])
    /\ Both(answers[2])
    /\ result = "gho_2"

\* ------------------------------------------- two streams consumed together
\* Lines per body and cuts per body when two streams are decoded together.
MaxPairFrames == 1
MaxPairCuts == 1

\* The lines of the two bodies: the number, the string with the two-byte
\* character (the decoder holds a byte back when a chunk ends inside it) and
\* the sentinel (the generator returns).
PairFrameNames == {"one", "e", "done"}

\* The bodies of the two streams: up to MaxPairFrames lines, with or without
\* a cut-off data frame at the end (the buffer keeps it).
PairPlans ==
    LET whole == {f \in UNION {[1..n -> PairFrameNames] :
                                  n \in 1..MaxPairFrames} :
                     \A i, j \in DOMAIN f : f[i] = f[j] => i = j}
    IN  whole \cup {Append(f, "tail") : f \in whole}

\* `const reader = res.body.getReader(); const decoder = new TextDecoder();
\* let buffer = ""`: the locals of one invocation, about to read.
NewGen(p) == [NoGen EXCEPT !.body = BodyOf(p), !.gen = "read"]

\* chatStream was called twice and both responses have arrived with status
\* 200 and a body.
InitPair ==
    /\ ClientAtRest
    /\ StreamOff
    /\ PollOff
    /\ ErrorOff
    /\ MainOff
    /\ CreateOff
    /\ gens \in [StreamIds -> {NewGen(p) : p \in PairPlans}]
    /\ arrivals = <<>>

\* GenReadChunk with buffer and decoder kept in fields of the client, which
\* every invocation reads and writes.
GenReadChunkSharedBuffer(s) ==
    /\ gens[s].gen = "read"
    /\ \E n \in 1..(Len(gens[s].body) - gens[s].readPos) :
          /\ gens[s].readPos + n < Len(gens[s].body) =>
                Len(gens[s].chunks) < MaxPairCuts
          /\ \E d \in {TextDecode(gens[s].decoder,
                                    SubSeq(gens[s].body, gens[s].readPos + 1,
                                           gens[s].readPos + n))} :
             \E parts \in {split(gens[s].buffer \o d.text)} :
                gens' = [t \in StreamIds |->
                           IF t = s
                           THEN [gens[s] EXCEPT
                                   !.decoder = d.held,
                                   !.lines = SubSeq(parts, 1, Len(parts) - 1),
                                   !.buffer = parts[Len(parts)],
                                   !.readPos = @ + n,
                                   !.chunks = Append(@, n),
                                   !.gen = "lines"]
                           ELSE [gens[t] EXCEPT
                                   !.decoder = d.held,
                                   !.buffer = parts[Len(parts)]]]
    /\ arrivals' = Append(arrivals, s)
    /\ UNCHANGED notPair

\* reader.read() of invocation s resolves with the next n bytes: they are
\* decoded by its decoder and appended to its buffer, the buffer is split, its
\* last part is kept.
GenReadChunk(s) ==
    /\ gens[s].gen = "read"
    /\ \E n \in 1..(Len(gens[s].body) - gens[s].readPos) :
          /\ gens[s].readPos + n < Len(gens[s].body) =>
                Len(gens[s].chunks) < MaxPairCuts
          /\ \E d \in {TextDecode(gens[s].decoder,
                                    SubSeq(gens[s].body, gens[s].readPos + 1,
                                           gens[s].readPos + n))} :
             \E parts \in {split(gens[s].buffer \o d.text)} :
                gens' = [gens EXCEPT ![s] =
                           [@ EXCEPT
                              !.decoder = d.held,
                              !.lines = SubSeq(parts, 1, Len(parts) - 1),
                              !.buffer = parts[Len(parts)],
                              !.readPos = @ + n,
                              !.chunks = Append(@, n),
                              !.gen = "lines"]]
    /\ arrivals' = Append(arrivals, s)
    /\ UNCHANGED notPair

\* One pass of the body of the for loop of invocation s: `continue`, `return`
\* on the sentinel, `yield JSON.parse(data)`, or the empty catch.
GenLine(s) ==
    /\ gens[s].gen = "lines" /\ gens[s].lines # <<>>
    /\ \E line \in {Head(gens[s].lines)} :
          gens' = [gens EXCEPT ![s] =
             IF ~startsWith(line, PrefixData) \/ dataOf(line) = <<>>
             THEN [@ EXCEPT !.lines = Tail(@)]
             ELSE IF dataOf(line) = Sentinel
             THEN [@ EXCEPT !.gen = "ended", !.lines = <<>>,
                            !.buffer = <<>>, !.decoder = <<>>]
             ELSE IF JSONParseChunk(dataOf(line)).ok
             THEN [@ EXCEPT !.yielded =
                              Append(@, JSONParseChunk(dataOf(line)).value),
                            !.lines = Tail(@)]
             ELSE [@ EXCEPT !.lines = Tail(@)]]
    /\ UNCHANGED arrivals
    /\ UNCHANGED notPair

\* The for loop of invocation s has visited every line: back to
\* reader.read().
GenLinesDone(s) ==
    /\ gens[s].gen = "lines" /\ gens[s].lines = <<>>
    /\ gens' = [gens EXCEPT ![s].gen = "read"]
    /\ UNCHANGED arrivals
    /\ UNCHANGED notPair

\* reader.read() of invocation s resolves with done.
GenReadDone(s) ==
    /\ gens[s].gen = "read"
    /\ gens[s].readPos = Len(gens[s].body)
    /\ gens' = [gens EXCEPT ![s].gen = "ended"]
    /\ UNCHANGED arrivals
    /\ UNCHANGED notPair

NextPair ==
    \E s \in StreamIds :
        \/ GenReadChunk(s)
        \/ GenLine(s)
        \/ GenLinesDone(s)
        \/ GenReadDone(s)

SpecPair == InitPair /\ [][NextPair]_vars

\* One of these lines carries the sentinel.
hasSentinel(ls) ==
    \E i \in DOMAIN ls :
        startsWith(ls[i], PrefixData) /\ dataOf(ls[i]) = Sentinel

\* What one chatStream yields, decoded on its own, for the bytes of b
\* delivered in chunks of the lengths lens: i is the chunk to read, pos the
\* bytes read, st the decoder's held bytes, the buffer, the yields so far and
\* whether it has returned.
RECURSIVE aloneFrom(_, _, _, _, _)
aloneFrom(b, lens, i, pos, st) ==
    IF i > Len(lens) \/ st.ended THEN st.yielded
    ELSE LET d == TextDecode(st.decoder, SubSeq(b, pos + 1, pos + lens[i]))
             parts == split(st.buffer \o d.text)
             ls == SubSeq(parts, 1, Len(parts) - 1)
         IN  aloneFrom(b, lens, i + 1, pos + lens[i],
                       [decoder |-> d.held, buffer |-> parts[Len(parts)],
                        yielded |-> st.yielded \o yieldsOf(ls),
                        ended |-> hasSentinel(ls)])

Alone(b, lens) ==
    aloneFrom(b, lens, 1, 0,
              [decoder |-> <<>>, buffer |-> <<>>, yielded |-> <<>>,
               ended |-> FALSE])

\* C33: buffer, decoder and the position of the generator belong to one
\* invocation of chatStream. With two streams consumed at the same time and
\* their chunks and line steps interleaved in every order, a step of one
\* invocation changes nothing of the other, and each invocation has yielded,
\* whenever it is about to read or has ended, exactly what it yields for the
\* chunks it has received when decoded on its own (a prefix of that while it
\* is visiting lines).
C33_ConcurrentStreamsIndependent ==
    /\ [](\A s \in StreamIds :
            /\ IsPrefix(gens[s].yielded, Alone(gens[s].body, gens[s].chunks))
            /\ gens[s].gen \in {"read", "ended"} =>
                  gens[s].yielded = Alone(gens[s].body, gens[s].chunks))
    /\ [][\A s, t \in StreamIds :
             (s # t /\ gens'[s] # gens[s]) => gens'[t] = gens[t]]_vars

\* The first stream received the string frame cut inside its two-byte
\* character, the second the number frame cut inside "data: ", the chunks
\* arriving alternately; both have ended, each having yielded its value.
C33_Witness ==
    /\ arrivals = <<1, 2, 1, 2>>
    /\ gens[1].body = BodyOf(<<"e">>) /\ gens[1].chunks = <<8, 3>>
    /\ gens[2].body = BodyOf(<<"one">>) /\ gens[2].chunks = <<3, 5>>
    /\ gens[1].gen = "ended" /\ gens[2].gen = "ended"
    /\ gens[1].yielded = <<ValueOf("e")>>
    /\ gens[2].yielded = <<ValueOf("one")>>

====
